---- MODULE Spec2Model ----
(***************************************************************************)
(* Worktree lifecycle of bonsai: grow (src/commands/grow.ts), prune        *)
(* (src/commands/prune.ts) and the git wrappers of src/lib/git.ts.         *)
(*                                                                         *)
(* Strings that the code inspects character by character (branch names,    *)
(* folder names) are sequences of one-character strings.  A path is a      *)
(* record [dir, name]: dir names the parent directory ("base" is the       *)
(* configured repo.worktree_base, "repo" the main checkout) and name is    *)
(* the last path component (<<>> for the directory itself).                *)
(***************************************************************************)
EXTENDS Integers, Sequences, FiniteSets, TLC

\* ------------------------------------------------------------------ bounds
\* largest number of changed files a worktree's porcelain status reports
MaxChanges == 1
\* largest number of worktrees the user ticks in the multi-select prompt
MaxSelect == 2
\* largest number of setup commands the configuration lists
MaxSetup == 2
\* longest branch name enumerated character by character
MaxLen == 3
\* largest number of lines `git status --porcelain` emits
MaxLines == 2

\* ------------------------------------------------------------- vocabulary
M == <<"m">>
A == <<"a">>
AB == <<"a", "/", "b">>
A_B == <<"a", "-", "b">>
DashA == <<"-", "a">>
NoName == <<>>

\* branch names typed on the command line
Names == {M, A, AB, A_B, DashA}

\* the branch main_branch of the configuration names
MainBranch == M

NoPath == [dir |-> "none", name |-> <<>>]
RepoPath == [dir |-> "repo", name |-> <<>>]
WorktreeBase == [dir |-> "base", name |-> <<>>]
\* a worktree in a directory next to the base whose name starts with the
\* name of the base
SiblingPath == [dir |-> "sibling", name |-> A]

Letters ==
  {"a","b","c","d","e","f","g","h","i","j","k","l","m","n","o","p","q","r",
   "s","t","u","v","w","x","y","z","A","B","C","D","E","F","G","H","I","J",
   "K","L","M","N","O","P","Q","R","S","T","U","V","W","X","Y","Z"}
Digits == {"0","1","2","3","4","5","6","7","8","9"}
AllowedChars == Letters \cup Digits \cup {".", "_", "/", "-"}
Whitespace == {" ", "\n"}

StartsWith(s, p) == Len(s) >= Len(p) /\ SubSeq(s, 1, Len(p)) = p
EndsWith(s, p) == Len(s) >= Len(p) /\ SubSeq(s, Len(s) - Len(p) + 1, Len(s)) = p
Includes(s, p) == \E i \in 1..(Len(s) - Len(p) + 1) : SubSeq(s, i, i + Len(p) - 1) = p

\* ---------------------------------------------------------- pure functions
\* validateBranchName without the rule on a trailing ".lock"
validateBranchName_NoLockRule(branch) ==
  IF Len(branch) = 0 \/ \A i \in 1..Len(branch) : branch[i] \in Whitespace
    THEN [valid |-> FALSE, error |-> "empty"]
  ELSE IF StartsWith(branch, <<"-">>)
    THEN [valid |-> FALSE, error |-> "leading-dash"]
  ELSE IF \E i \in 1..Len(branch) : branch[i] \notin AllowedChars
    THEN [valid |-> FALSE, error |-> "invalid-chars"]
  ELSE IF Includes(branch, <<".", ".">>)
    THEN [valid |-> FALSE, error |-> "double-dot"]
  ELSE [valid |-> TRUE, error |-> "none"]

\* validateBranchName testing for ".." before it tests the characters
validateBranchName_DotsFirst(branch) ==
  IF Len(branch) = 0 \/ \A i \in 1..Len(branch) : branch[i] \in Whitespace
    THEN [valid |-> FALSE, error |-> "empty"]
  ELSE IF StartsWith(branch, <<"-">>)
    THEN [valid |-> FALSE, error |-> "leading-dash"]
  ELSE IF Includes(branch, <<".", ".">>)
    THEN [valid |-> FALSE, error |-> "double-dot"]
  ELSE IF \E i \in 1..Len(branch) : branch[i] \notin AllowedChars
    THEN [valid |-> FALSE, error |-> "invalid-chars"]
  ELSE IF EndsWith(branch, <<".", "l", "o", "c", "k">>)
    THEN [valid |-> FALSE, error |-> "dot-lock"]
  ELSE [valid |-> TRUE, error |-> "none"]

\* the validator: the first rule that fails gives the reason
validateBranchName(branch) ==
  IF Len(branch) = 0 \/ \A i \in 1..Len(branch) : branch[i] \in Whitespace
    THEN [valid |-> FALSE, error |-> "empty"]
  ELSE IF StartsWith(branch, <<"-">>)
    THEN [valid |-> FALSE, error |-> "leading-dash"]
  ELSE IF \E i \in 1..Len(branch) : branch[i] \notin AllowedChars
    THEN [valid |-> FALSE, error |-> "invalid-chars"]
  ELSE IF Includes(branch, <<".", ".">>)
    THEN [valid |-> FALSE, error |-> "double-dot"]
  ELSE IF EndsWith(branch, <<".", "l", "o", "c", "k">>)
    THEN [valid |-> FALSE, error |-> "dot-lock"]
  ELSE [valid |-> TRUE, error |-> "none"]

\* sanitizeBranchName replacing the first slash only
sanitizeBranchName_FirstOnly(branch) ==
  [i \in 1..Len(branch) |->
     IF branch[i] = "/" /\ \A j \in 1..(i - 1) : branch[j] # "/"
       THEN "-" ELSE branch[i]]

\* every slash becomes a hyphen
sanitizeBranchName(branch) ==
  [i \in 1..Len(branch) |-> IF branch[i] = "/" THEN "-" ELSE branch[i]]

\* path.join(config.repo.worktree_base, folderName): "." normalises away
join(base, folderName) ==
  IF folderName = <<".">> THEN base ELSE [dir |-> base.dir, name |-> folderName]

ValidNames == {b \in Names : validateBranchName(b).valid}
Paths == {join(WorktreeBase, sanitizeBranchName(b)) : b \in ValidNames}
AllPaths == Paths \cup {RepoPath, SiblingPath}

\* ---------------------------------------------------- configuration values
\* the tables of a bonsai config and the keys inside them
TopKeys == {"repo", "editor", "setup", "behavior", "extra"}
SubKeys == {"path", "main_branch", "name", "commands", "navigate_after_grow",
            "post_creation_action"}
\* a JavaScript value: a table of SubKeys or anything else (a leaf)
NoFields == [k \in SubKeys |-> "undefined"]
Leaf(v) == [kind |-> "leaf", leaf |-> v, fields |-> NoFields]
Object(fields) == [kind |-> "object", leaf |-> "undefined", fields |-> fields]
Undefined == Leaf("undefined")
NoObject == [k \in TopKeys |-> Undefined]

\* ------------------------------------------------------------------- state
VARIABLES
  worktrees,      \* git's worktree records, in `git worktree list` order
  disk,           \* what is at each path: "none", "file", "wtdir" (a worktree)
  status,         \* number of porcelain status lines of each worktree
  localRefs,      \* names that `git rev-parse --verify <b>` resolves
  remoteRefs,     \* names b for which origin/<b> resolves
  upstream,       \* branches of the remote, seen after a successful fetch
  pc,             \* position of the running command ("idle": none running)
  branchName,     \* the command's argument
  worktreePath,   \* the path the command works on
  exists,         \* grow: result of branchExists
  isRemote,       \* grow: result of isRemoteOnlyBranch
  existingWorktree, \* grow: result of findWorktreeForBranch
  isClean,        \* prune: result of isWorktreeClean
  forceDelete,    \* prune: the force flag passed to removeWorktree
  bonsaiWorktrees, \* multi-select prune: the paths offered for selection
  running,        \* git subprocesses started and not yet exited
  porcelain,      \* prune: the lines `git status --porcelain` emitted
  formattedLines, \* prune: the entries listed before the force prompt
  changeCount,    \* prune: the number of changes the force prompt shows
  configFile,     \* the values of the repository's config file
  parsed,         \* config: the object handed to mergeConfigWithDefaults
  config,         \* config: the merged configuration
  updated,        \* config: whether the merge added a key
  sessionsFile,   \* sessions.json: absent, or the JSON text last written
  registry,       \* sessions: the registry object each invocation loaded
  sessionOp,      \* sessions: the registry call each invocation is in
  sessionPc,      \* sessions: each invocation's position in that call
  selected,       \* multi-select prune: the ticked paths, in order
  idx,            \* multi-select prune: index of the target in progress
  results,        \* multi-select prune: PruneResult[]
  summary,        \* multi-select prune: the printed counts
  calls,          \* external calls and prompts of this invocation, in order
  outcome,        \* how the invocation ended
  exitCode,       \* process exit code (-1 while running)
  setupCommands,  \* grow: config.setup.commands
  setupIndex,     \* grow: position in setupCommands of the command to run
  setupFailed,    \* grow: a setup command exited non-zero
  startWorktrees  \* worktree records and directories when the command began

world == <<worktrees, disk, status, localRefs, remoteRefs, upstream>>
postLocals == <<setupCommands, setupIndex, setupFailed>>
growLocals == <<exists, isRemote, existingWorktree, postLocals>>
display == <<porcelain, formattedLines, changeCount>>
configLocals == <<configFile, parsed, config, updated>>
sessions == <<sessionsFile, registry, sessionOp, sessionPc>>
multiLocals == <<bonsaiWorktrees, running, display, configLocals, sessions, selected, idx, results, summary>>
locals == <<branchName, worktreePath, exists, isRemote, existingWorktree,
            isClean, forceDelete, bonsaiWorktrees, running, display, configLocals, sessions, selected, idx, results,
            summary, postLocals>>
vars == <<worktrees, disk, status, localRefs, remoteRefs, upstream, pc,
          branchName, worktreePath, exists, isRemote, existingWorktree,
          isClean, forceDelete, bonsaiWorktrees, running, display, configLocals, sessions, selected, idx, results,
          summary, calls, outcome, exitCode, setupCommands, setupIndex,
          setupFailed, startWorktrees>>

NoWorktree == [path |-> NoPath, branch |-> NoName, exists |-> FALSE]

\* the invocations of the tool that may run at the same time
Invocations == {1, 2}
NoOp == [kind |-> "none", worktreePath |-> NoPath, prompt |-> ""]
\* no sessions.json yet and no invocation inside a registry call
NoSessions ==
  /\ sessionsFile = [exists |-> FALSE, text |-> <<>>]
  /\ registry = [i \in Invocations |-> <<>>]
  /\ sessionOp = [i \in Invocations |-> NoOp]
  /\ sessionPc = [i \in Invocations |-> "idle"]
NoSummary == [successful |-> 0, failed |-> 0]

Call(op, path, branch, arg, ok) ==
  [op |-> op, path |-> path, branch |-> branch, arg |-> arg, ok |-> ok,
   result |-> "none"]

MutatingOps == {"add", "remove", "prune"}
Mutations(log) == SelectSeq(log, LAMBDA c : c.op \in MutatingOps)

\* ------------------------------------------------------------ the inspector
\* Bun.file(p).exists(): true for a regular file, false for a directory
BunFileExists(p) == disk[p] = "file"

\* Bun.file(join(p, ".git")).exists(): a worktree directory holds a .git file
GitMarkerExists(p) == disk[p] = "wtdir"

directoryExists(p) == disk[p] \in {"dir", "wtdir"}

branchExists(branch) == branch \in localRefs \/ branch \in remoteRefs

isRemoteOnlyBranch(branch) == branch \notin localRefs /\ branch \in remoteRefs

\* paths of `git worktree list --porcelain`
listWorktrees == [i \in 1..Len(worktrees) |-> worktrees[i].path]

SeqIncludes(s, x) == \E i \in 1..Len(s) : s[i] = x

\* findWorktreeForBranch comparing the unstripped ref name "refs/heads/<b>"
findWorktreeForBranch_NoStrip(branch, listOk) ==
  LET hits == {i \in 1..Len(worktrees) :
                 worktrees[i].branch = <<"refs/heads/">> \o branch
                 /\ worktrees[i].path # NoPath}
  IN IF ~listOk \/ hits = {} THEN NoWorktree
     ELSE LET i == CHOOSE j \in hits : \A k \in hits : j <= k
          IN [path |-> worktrees[i].path, branch |-> worktrees[i].branch,
              exists |-> directoryExists(worktrees[i].path)]

\* first record whose branch line names the branch, with its directory stat-ed;
\* a failed `git worktree list` gives null
findWorktreeForBranch(branch, listOk) ==
  LET hits == {i \in 1..Len(worktrees) :
                 worktrees[i].branch = branch /\ worktrees[i].path # NoPath}
  IN IF ~listOk \/ hits = {} THEN NoWorktree
     ELSE LET i == CHOOSE j \in hits : \A k \in hits : j <= k
          IN [path |-> worktrees[i].path, branch |-> worktrees[i].branch,
              exists |-> directoryExists(worktrees[i].path)]

\* `git -C <p> status --porcelain` exits 0 only inside a worktree
StatusSucceeds(p, ok) == ok /\ disk[p] = "wtdir"

\* createWorktreeMode testing `exists` before `isRemoteOnly`
createWorktreeMode_ExistsFirst(branch, hasStartPoint) ==
  LET ex == branchExists(branch)
      isRemoteOnly == isRemoteOnlyBranch(branch)
  IN IF ex THEN "attach"
     ELSE IF isRemoteOnly THEN "track"
     ELSE IF ~hasStartPoint THEN "missing"
     ELSE "new"

\* the `git worktree add` that createWorktree issues: "track" is
\* add <path> -b <branch> origin/<branch>, "attach" is add <path> <branch>,
\* "new" is add -b <branch> <path> <startPoint>; "missing" is the throw
createWorktreeMode(branch, hasStartPoint) ==
  LET ex == branchExists(branch)
      isRemoteOnly == isRemoteOnlyBranch(branch)
  IN IF isRemoteOnly THEN "track"
     ELSE IF ex THEN "attach"
     ELSE IF ~hasStartPoint THEN "missing"
     ELSE "new"

\* ------------------------------------------------------------- git's side
HasPath(p) == \E i \in 1..Len(worktrees) : worktrees[i].path = p
HasBranch(b) == \E i \in 1..Len(worktrees) : worktrees[i].branch = b

\* whether `git worktree add` exits 0: the target must be free, the branch
\* not checked out in any registered worktree, and -b must create a new name
AddSucceeds(path, branch, mode, ok) ==
  /\ ok
  /\ disk[path] = "none"
  /\ ~HasPath(path)
  /\ ~HasBranch(branch)
  /\ CASE mode = "track" -> branch \notin localRefs /\ branch \in remoteRefs
       [] mode = "attach" -> branch \in localRefs
       [] mode = "new" -> branch \notin localRefs /\ MainBranch \in remoteRefs
       [] OTHER -> FALSE

\* whether `git worktree remove [--force] <path>` exits 0
RemoveSucceeds(path, force, ok) ==
  /\ ok
  /\ path # RepoPath
  /\ HasPath(path)
  /\ force \/ disk[path] # "wtdir" \/ status[path] = 0

WithoutPath(p) == SelectSeq(worktrees, LAMBDA r : r.path # p)

\* `git worktree prune` drops every record whose directory is gone
WithoutStale == SelectSeq(worktrees, LAMBDA r : directoryExists(r.path))

\* ------------------------------------------------------------------- Init
Init ==
  /\ localRefs \in {{M}, {M, A}}
  /\ \E head \in localRefs : worktrees = <<[path |-> RepoPath, branch |-> head]>>
  /\ disk = [p \in AllPaths |-> IF p = RepoPath THEN "wtdir" ELSE "none"]
  /\ status = [p \in AllPaths |-> 0]
  /\ remoteRefs = {M}
  /\ upstream \in {{M}, {M, A}}
  /\ pc = "idle"
  /\ branchName = NoName
  /\ worktreePath = NoPath
  /\ exists = FALSE
  /\ isRemote = FALSE
  /\ existingWorktree = NoWorktree
  /\ isClean = FALSE
  /\ forceDelete = FALSE
  /\ bonsaiWorktrees = <<>>
  /\ running = {}
  /\ porcelain = <<>>
  /\ formattedLines = <<>>
  /\ changeCount = 0
  /\ configFile = NoObject
  /\ parsed = NoObject
  /\ config = NoObject
  /\ updated = FALSE
  /\ NoSessions
  /\ selected = <<>>
  /\ idx = 0
  /\ results = <<>>
  /\ summary = NoSummary
  /\ calls = <<>>
  /\ outcome = "none"
  /\ exitCode = -1
  /\ setupCommands = <<>>
  /\ setupIndex = 0
  /\ setupFailed = FALSE
  /\ startWorktrees = [worktrees |-> worktrees, disk |-> disk]

\* process.exit(code) or a return from the command
Exit(what, code) ==
  /\ pc' = "done"
  /\ outcome' = what
  /\ exitCode' = code

\* a command begins: nothing of the previous invocation is kept
Begin ==
  /\ pc = "idle"
  /\ startWorktrees' = [worktrees |-> worktrees, disk |-> disk]

\* ---------------------------------------------------------- the environment
\* a directory or file is deleted outside git (leaves a stale record behind)
ExternalDelete(p) ==
  /\ pc = "idle"
  /\ disk[p] # "none"
  /\ disk' = [disk EXCEPT ![p] = "none"]
  /\ status' = [status EXCEPT ![p] = 0]
  /\ UNCHANGED <<worktrees, localRefs, remoteRefs, upstream, pc, locals,
                 calls, outcome, exitCode, startWorktrees>>

\* a plain file appears at a path under the worktree base
ExternalCreate(p, kind) ==
  /\ pc = "idle"
  /\ disk[p] = "none"
  /\ disk' = [disk EXCEPT ![p] = kind]
  /\ UNCHANGED <<worktrees, status, localRefs, remoteRefs, upstream, pc,
                 locals, calls, outcome, exitCode, startWorktrees>>

\* the user edits files in a worktree
ExternalEdit(p, n) ==
  /\ pc = "idle"
  /\ disk[p] = "wtdir"
  /\ p # RepoPath
  /\ status[p] # n
  /\ status' = [status EXCEPT ![p] = n]
  /\ UNCHANGED <<worktrees, disk, localRefs, remoteRefs, upstream, pc,
                 locals, calls, outcome, exitCode, startWorktrees>>

\* ------------------------------------------------------------------- grow
\* GrowStart looking at the target folder before it validates the name
GrowStart_ChecksFolderFirst(b, haveConfig) ==
  /\ Begin
  /\ branchName' = b
  /\ UNCHANGED <<world, exists, isRemote, existingWorktree, isClean,
                 forceDelete, bonsaiWorktrees, running, display, configLocals, sessions, selected, idx, results, summary,
                 postLocals>>
  /\ IF Len(b) = 0
       THEN /\ Exit("MissingBranchName", 1)
            /\ calls' = <<>>
            /\ worktreePath' = NoPath
     ELSE IF ~haveConfig
       THEN /\ Exit("NoConfig", 1)
            /\ calls' = <<Call("config", NoPath, NoName, "none", FALSE)>>
            /\ worktreePath' = NoPath
     ELSE LET path == join(WorktreeBase, sanitizeBranchName(b))
              folderExists == path \in AllPaths /\ BunFileExists(path)
          IN /\ calls' = <<Call("config", NoPath, NoName, "none", TRUE),
                           Call("exists", path, b, "none", folderExists)>>
             /\ IF folderExists
                  THEN /\ Exit("WorktreeAlreadyExists", 1)
                       /\ worktreePath' = path
                ELSE IF ~validateBranchName(b).valid
                  THEN /\ Exit("InvalidBranchName", 1)
                       /\ worktreePath' = NoPath
                ELSE /\ pc' = "g_fetch"
                     /\ worktreePath' = path
                     /\ UNCHANGED <<outcome, exitCode>>

\* growCommand up to the folder check
GrowStart(b, haveConfig) ==
  /\ Begin
  /\ branchName' = b
  /\ UNCHANGED <<world, exists, isRemote, existingWorktree, isClean,
                 forceDelete, bonsaiWorktrees, running, display, configLocals, sessions, selected, idx, results, summary,
                 postLocals>>
  /\ IF Len(b) = 0
       THEN /\ Exit("MissingBranchName", 1)
            /\ calls' = <<>>
            /\ worktreePath' = NoPath
     ELSE IF ~validateBranchName(b).valid
       THEN /\ Exit("InvalidBranchName", 1)
            /\ calls' = <<>>
            /\ worktreePath' = NoPath
     ELSE IF ~haveConfig
       THEN /\ Exit("NoConfig", 1)
            /\ calls' = <<Call("config", NoPath, NoName, "none", FALSE)>>
            /\ worktreePath' = NoPath
     ELSE LET path == join(WorktreeBase, sanitizeBranchName(b))
              folderExists == BunFileExists(path)
          IN /\ worktreePath' = path
             /\ calls' = <<Call("config", NoPath, NoName, "none", TRUE),
                           Call("exists", path, b, "none", folderExists)>>
             /\ IF folderExists
                  THEN Exit("WorktreeAlreadyExists", 1)
                  ELSE /\ pc' = "g_fetch"
                       /\ UNCHANGED <<outcome, exitCode>>

\* GrowFetch without the try/catch: a failed fetch ends grow
GrowFetch_Fatal(ok) ==
  /\ pc = "g_fetch"
  /\ calls' = Append(calls, Call("fetch", NoPath, NoName, "none", ok))
  /\ remoteRefs' = IF ok THEN upstream ELSE remoteRefs
  /\ IF ok
       THEN /\ pc' = "g_classify"
            /\ UNCHANGED <<outcome, exitCode>>
       ELSE Exit("FetchFailed", 1)
  /\ UNCHANGED <<worktrees, disk, status, localRefs, upstream, locals,
                 startWorktrees>>

\* fetchRemote inside try/catch: a failure is only reported
GrowFetch(ok) ==
  /\ pc = "g_fetch"
  /\ calls' = Append(calls, Call("fetch", NoPath, NoName, "none", ok))
  /\ remoteRefs' = IF ok THEN upstream ELSE remoteRefs
  /\ pc' = "g_classify"
  /\ UNCHANGED <<worktrees, disk, status, localRefs, upstream, locals,
                 outcome, exitCode, startWorktrees>>

\* branchExists and isRemoteOnlyBranch, announced to the user
GrowClassify ==
  /\ pc = "g_classify"
  /\ exists' = branchExists(branchName)
  /\ isRemote' = isRemoteOnlyBranch(branchName)
  /\ calls' = Append(calls, Call("classify", NoPath, branchName, "none", TRUE))
  /\ pc' = "g_conflict"
  /\ UNCHANGED <<world, branchName, worktreePath, existingWorktree, isClean,
                 forceDelete, bonsaiWorktrees, running, display, configLocals, sessions, selected, idx, results, summary,
                 postLocals, outcome, exitCode, startWorktrees>>

\* findWorktreeForBranch and the decision taken on its result
GrowCheckConflict(listOk) ==
  /\ pc = "g_conflict"
  /\ LET found == findWorktreeForBranch(branchName, listOk)
     IN /\ existingWorktree' = found
        /\ calls' = Append(calls,
              Call("find", found.path, branchName,
                   IF found = NoWorktree THEN "null"
                   ELSE IF found.exists THEN "live" ELSE "stale", listOk))
        /\ IF found = NoWorktree
             THEN /\ pc' = "g_create"
                  /\ UNCHANGED <<outcome, exitCode>>
           ELSE IF found.exists
             THEN Exit("BranchCheckedOutElsewhere", 1)
           ELSE /\ pc' = "g_confirm"
                /\ UNCHANGED <<outcome, exitCode>>
  /\ UNCHANGED <<world, branchName, worktreePath, exists, isRemote, isClean,
                 forceDelete, bonsaiWorktrees, running, display, configLocals, sessions, selected, idx, results, summary,
                 postLocals, startWorktrees>>

\* GrowConfirm that prunes whatever the answer is
GrowConfirm_IgnoresAnswer(answer) ==
  /\ pc = "g_confirm"
  /\ calls' = Append(calls,
        Call("confirm", existingWorktree.path, branchName, answer, TRUE))
  /\ pc' = "g_prune"
  /\ UNCHANGED <<outcome, exitCode>>
  /\ UNCHANGED <<world, locals, startWorktrees>>

\* p.confirm "Prune stale worktree references and continue?"
GrowConfirm(answer) ==
  /\ pc = "g_confirm"
  /\ calls' = Append(calls,
        Call("confirm", existingWorktree.path, branchName, answer, TRUE))
  /\ IF answer = "yes"
       THEN /\ pc' = "g_prune"
            /\ UNCHANGED <<outcome, exitCode>>
       ELSE Exit("Cancelled", 0)
  /\ UNCHANGED <<world, locals, startWorktrees>>

\* pruneStaleWorktrees
\* GrowPrune without the catch: a failed prune is only reported
GrowPrune_SwallowsFailure(ok) ==
  /\ pc = "g_prune"
  /\ calls' = Append(calls, Call("prune", NoPath, NoName, "none", ok))
  /\ worktrees' = IF ok THEN WithoutStale ELSE worktrees
  /\ pc' = "g_create"
  /\ UNCHANGED <<outcome, exitCode>>
  /\ UNCHANGED <<disk, status, localRefs, remoteRefs, upstream, locals,
                 startWorktrees>>

GrowPrune(ok) ==
  /\ pc = "g_prune"
  /\ calls' = Append(calls, Call("prune", NoPath, NoName, "none", ok))
  /\ IF ok
       THEN /\ worktrees' = WithoutStale
            /\ pc' = "g_create"
            /\ UNCHANGED <<outcome, exitCode>>
       ELSE /\ UNCHANGED worktrees
            /\ Exit("PruneFailed", 1)
  /\ UNCHANGED <<disk, status, localRefs, remoteRefs, upstream, locals,
                 startWorktrees>>

\* createWorktree without the test of the exit code of `git worktree add`
createWorktree_IgnoresExit(hasStartPoint, gitOk, whenCreated) ==
  LET mode == createWorktreeMode(branchName, hasStartPoint)
      ok == AddSucceeds(worktreePath, branchName, mode, gitOk)
  IN IF mode = "missing"
       THEN /\ Exit("MissingStartPoint", 1)
            /\ UNCHANGED <<worktrees, disk, localRefs>>
            /\ calls' = calls
       ELSE /\ calls' = Append(calls,
                  Call("add", worktreePath, branchName, mode, ok))
            /\ pc' = whenCreated
            /\ UNCHANGED <<outcome, exitCode>>
            /\ IF ok
                 THEN /\ worktrees' = Append(worktrees,
                            [path |-> worktreePath, branch |-> branchName])
                      /\ disk' = [disk EXCEPT ![worktreePath] = "wtdir"]
                      /\ localRefs' = localRefs \cup {branchName}
                 ELSE UNCHANGED <<worktrees, disk, localRefs>>

\* createWorktree falling back to a start point of its own when the caller
\* gives none
createWorktree_DefaultStartPoint(hasStartPoint, gitOk, whenCreated) ==
  LET mode == createWorktreeMode(branchName, TRUE)
      ok == AddSucceeds(worktreePath, branchName, mode, gitOk)
  IN /\ calls' = Append(calls, Call("add", worktreePath, branchName, mode, ok))
     /\ IF ok
          THEN /\ worktrees' = Append(worktrees,
                     [path |-> worktreePath, branch |-> branchName])
               /\ disk' = [disk EXCEPT ![worktreePath] = "wtdir"]
               /\ localRefs' = localRefs \cup {branchName}
               /\ pc' = whenCreated
               /\ UNCHANGED <<outcome, exitCode>>
          ELSE /\ UNCHANGED <<worktrees, disk, localRefs>>
               /\ Exit("WorktreeCreateFailed", 1)

\* createWorktree(worktreePath, branchName, options) and the catch around
\* it: the GitError for a missing start point is thrown before any git
\* call, the one for a non-zero `git worktree add` after it; the caller
\* goes on at whenCreated
createWorktree(hasStartPoint, gitOk, whenCreated) ==
  LET mode == createWorktreeMode(branchName, hasStartPoint)
      ok == AddSucceeds(worktreePath, branchName, mode, gitOk)
  IN IF mode = "missing"
       THEN /\ Exit("MissingStartPoint", 1)
            /\ UNCHANGED <<worktrees, disk, localRefs>>
            /\ calls' = calls
       ELSE /\ calls' = Append(calls,
                  Call("add", worktreePath, branchName, mode, ok))
            /\ IF ok
                 THEN /\ worktrees' = Append(worktrees,
                            [path |-> worktreePath, branch |-> branchName])
                      /\ disk' = [disk EXCEPT ![worktreePath] = "wtdir"]
                      /\ localRefs' = localRefs \cup {branchName}
                      /\ pc' = whenCreated
                      /\ UNCHANGED <<outcome, exitCode>>
                 ELSE /\ UNCHANGED <<worktrees, disk, localRefs>>
                      /\ Exit("WorktreeCreateFailed", 1)

\* grow's createWorktree(worktreePath, branchName, {startPoint})
\* GrowCreate trying `git worktree add` a second time after a failure
GrowCreate_Retries(gitOk) ==
  /\ pc = "g_create"
  /\ LET mode == createWorktreeMode(branchName, TRUE)
         ok == AddSucceeds(worktreePath, branchName, mode, gitOk)
         tried == \E i \in 1..Len(calls) : calls[i].op = "add"
     IN IF ~ok /\ ~tried
          THEN /\ calls' = Append(calls,
                     Call("add", worktreePath, branchName, mode, FALSE))
               /\ UNCHANGED <<worktrees, disk, localRefs, pc, outcome, exitCode>>
          ELSE createWorktree(TRUE, gitOk, "g_post")
  /\ UNCHANGED <<status, remoteRefs, upstream, locals, startWorktrees>>

GrowCreate(gitOk) ==
  /\ pc = "g_create"
  /\ createWorktree(TRUE, gitOk, "g_post")
  /\ UNCHANGED <<status, remoteRefs, upstream, locals, startWorktrees>>

\* what openInEditor can do: the editor is spawned and exits 0 ("opened"),
\* it is spawned and exits non-zero ("nonzero": proc.exited is awaited but
\* the exit code is not read), or spawn throws ("throw")
EditorResults == {"opened", "nonzero", "throw"}

\* the setup command lists a configuration can hold (commands are told
\* apart by their position in the list)
SetupNames == <<"cmd1", "cmd2", "cmd3", "cmd4">>
SetupCommand(i) == SetupNames[i]
SetupLists == {[i \in 1..n |-> SetupCommand(i)] : n \in 0..MaxSetup}

\* GrowEditor without the try/catch: an editor that cannot be spawned ends
\* grow
GrowEditor_Fatal(cmds, editor) ==
  /\ pc = "g_post"
  /\ setupCommands' = cmds
  /\ setupIndex' = 1
  /\ setupFailed' = FALSE
  /\ calls' = Append(calls,
        Call("editor", worktreePath, NoName, editor, editor # "throw"))
  /\ IF editor = "throw"
       THEN Exit("EditorFailed", 1)
       ELSE /\ pc' = IF Len(cmds) > 0 THEN "g_setup" ELSE "g_finish"
            /\ UNCHANGED <<outcome, exitCode>>
  /\ UNCHANGED <<world, branchName, worktreePath, exists, isRemote,
                 existingWorktree, isClean, forceDelete, multiLocals,
                 startWorktrees>>

\* config.setup.commands is read and the editor opened inside try/catch: a
\* throw is answered with p.log.warn, the summary note follows either way
GrowEditor(cmds, editor) ==
  /\ pc = "g_post"
  /\ setupCommands' = cmds
  /\ setupIndex' = 1
  /\ setupFailed' = FALSE
  /\ calls' = Append(calls,
        [Call("editor", worktreePath, NoName, editor, editor # "throw") EXCEPT
           !.result = IF editor = "throw" THEN "warning" ELSE "none"])
  /\ pc' = IF Len(cmds) > 0 THEN "g_setup" ELSE "g_finish"
  /\ UNCHANGED <<world, branchName, worktreePath, exists, isRemote,
                 existingWorktree, isClean, forceDelete, multiLocals, outcome,
                 exitCode, startWorktrees>>

\* GrowSetup going on to the next command after a failure
GrowSetup_KeepsGoing(ok) ==
  /\ pc = "g_setup"
  /\ calls' = Append(calls,
        Call("setup", worktreePath, NoName, setupCommands[setupIndex], ok))
  /\ setupFailed' = (setupFailed \/ ~ok)
  /\ setupIndex' = setupIndex + 1
  /\ pc' = IF setupIndex + 1 > Len(setupCommands) THEN "g_finish" ELSE "g_setup"
  /\ UNCHANGED <<world, branchName, worktreePath, exists, isRemote,
                 existingWorktree, isClean, forceDelete, multiLocals,
                 setupCommands, outcome, exitCode, startWorktrees>>

\* one turn of the setup loop: runCommandWithLogs(cmd, worktreePath); the
\* first command that exits non-zero sets setupFailed and breaks the loop
GrowSetup(ok) ==
  /\ pc = "g_setup"
  /\ calls' = Append(calls,
        Call("setup", worktreePath, NoName, setupCommands[setupIndex], ok))
  /\ IF ok
       THEN /\ setupIndex' = setupIndex + 1
            /\ pc' = IF setupIndex + 1 > Len(setupCommands)
                       THEN "g_finish" ELSE "g_setup"
            /\ UNCHANGED setupFailed
       ELSE /\ setupFailed' = TRUE
            /\ pc' = "g_finish"
            /\ UNCHANGED setupIndex
  /\ UNCHANGED <<world, branchName, worktreePath, exists, isRemote,
                 existingWorktree, isClean, forceDelete, multiLocals,
                 setupCommands, outcome, exitCode, startWorktrees>>

\* the final setup status and the outro are printed; growCommand returns
\* GrowFinish exiting 1 after a failed setup command, as `bonsai setup` does
GrowFinish_FailsOnSetup ==
  /\ pc = "g_finish"
  /\ IF setupFailed THEN Exit("SetupFailed", 1) ELSE Exit("Created", 0)
  /\ UNCHANGED <<world, locals, calls, startWorktrees>>

GrowFinish ==
  /\ pc = "g_finish"
  /\ Exit("Created", 0)
  /\ UNCHANGED <<world, locals, calls, startWorktrees>>

\* ------------------------------------------------------------ bonsai setup
\* setupCommand up to the loop: the configuration is loaded for the current
\* directory, which becomes the commands' working directory
SetupStart(cwd, haveConfig, cmds) ==
  /\ Begin
  /\ directoryExists(cwd)
  /\ branchName' = NoName
  /\ UNCHANGED <<world, exists, isRemote, existingWorktree, isClean,
                 forceDelete, multiLocals>>
  /\ calls' = <<Call("config", NoPath, NoName, "none", haveConfig)>>
  /\ setupIndex' = 1
  /\ setupFailed' = FALSE
  /\ IF ~haveConfig
       THEN /\ Exit("NoConfig", 1)
            /\ setupCommands' = <<>>
            /\ worktreePath' = NoPath
     ELSE IF Len(cmds) = 0
       THEN /\ Exit("NothingToRun", 0)
            /\ setupCommands' = cmds
            /\ worktreePath' = NoPath
     ELSE /\ setupCommands' = cmds
          /\ worktreePath' = cwd
          /\ pc' = "s_run"
          /\ UNCHANGED <<outcome, exitCode>>

\* SetupStep going on to the next command after a failure
SetupStep_KeepsGoing(ok) ==
  /\ pc = "s_run"
  /\ calls' = Append(calls,
        Call("setup", worktreePath, NoName, setupCommands[setupIndex], ok))
  /\ setupFailed' = (setupFailed \/ ~ok)
  /\ setupIndex' = setupIndex + 1
  /\ pc' = IF setupIndex + 1 > Len(setupCommands) THEN "s_finish" ELSE "s_run"
  /\ UNCHANGED <<world, branchName, worktreePath, exists, isRemote,
                 existingWorktree, isClean, forceDelete, multiLocals,
                 setupCommands, outcome, exitCode, startWorktrees>>

\* one turn of setupCommand's loop: runCommandWithLogs(cmd, cwd); the first
\* command that exits non-zero clears allSucceeded and breaks the loop
SetupStep(ok) ==
  /\ pc = "s_run"
  /\ calls' = Append(calls,
        Call("setup", worktreePath, NoName, setupCommands[setupIndex], ok))
  /\ IF ok
       THEN /\ setupIndex' = setupIndex + 1
            /\ pc' = IF setupIndex + 1 > Len(setupCommands)
                       THEN "s_finish" ELSE "s_run"
            /\ UNCHANGED setupFailed
       ELSE /\ setupFailed' = TRUE
            /\ pc' = "s_finish"
            /\ UNCHANGED setupIndex
  /\ UNCHANGED <<world, branchName, worktreePath, exists, isRemote,
                 existingWorktree, isClean, forceDelete, multiLocals,
                 setupCommands, outcome, exitCode, startWorktrees>>

\* the outro: exit code 1 when a command failed
SetupFinish ==
  /\ pc = "s_finish"
  /\ IF setupFailed THEN Exit("SetupFailed", 1) ELSE Exit("SetupCompleted", 0)
  /\ UNCHANGED <<world, locals, calls, startWorktrees>>

\* ------------------------------------------------------ prune <branch>

\* a porcelain status call and what it returned: "clean", "dirty" or "error"
StatusCall(p, what, ok) ==
  [Call("status", p, NoName, what, ok) EXCEPT
     !.result = IF ~ok THEN "error" ELSE IF status[p] = 0 THEN "clean" ELSE "dirty"]
RemoveCall(p, force, ok) ==
  Call("remove", p, NoName, IF force THEN "--force" ELSE "plain", ok)

\* the effect of `git worktree remove` that exited 0
Removed(p) ==
  /\ worktrees' = WithoutPath(p)
  /\ disk' = [disk EXCEPT ![p] = "none"]
  /\ status' = [status EXCEPT ![p] = 0]

\* StatusCheck with the comparison status === "" negated
StatusCheck_Inverted(p, ok1, ok2) ==
  LET first == StatusSucceeds(p, ok1)
      second == StatusSucceeds(p, ok2)
  IN [log |-> IF first
                THEN <<StatusCall(p, "isWorktreeClean", TRUE),
                       StatusCall(p, "getWorktreeStatus", second)>>
                ELSE <<StatusCall(p, "isWorktreeClean", FALSE)>>,
      ok |-> first /\ second,
      clean |-> status[p] # 0]

\* isWorktreeClean(p) then getWorktreeStatus(p): the calls made and whether
\* both returned; each of them throws GitError on a non-zero exit
StatusCheck(p, ok1, ok2) ==
  LET first == StatusSucceeds(p, ok1)
      second == StatusSucceeds(p, ok2)
  IN [log |-> IF first
                THEN <<StatusCall(p, "isWorktreeClean", TRUE),
                       StatusCall(p, "getWorktreeStatus", second)>>
                ELSE <<StatusCall(p, "isWorktreeClean", FALSE)>>,
      ok |-> first /\ second,
      clean |-> status[p] = 0]

\* PruneStart going on to the status check without looking the path up
PruneStart_NoLookup(b, haveConfig, listOk) ==
  /\ Begin
  /\ Len(b) > 0
  /\ branchName' = b
  /\ UNCHANGED <<world, growLocals, isClean, forceDelete, multiLocals>>
  /\ IF ~haveConfig
       THEN /\ Exit("NoConfig", 1)
            /\ calls' = <<Call("config", NoPath, NoName, "none", FALSE)>>
            /\ worktreePath' = NoPath
     ELSE IF ~validateBranchName(b).valid
       THEN /\ Exit("InvalidBranchName", 1)
            /\ calls' = <<Call("config", NoPath, NoName, "none", TRUE)>>
            /\ worktreePath' = NoPath
     ELSE LET path == join(WorktreeBase, sanitizeBranchName(b))
              cfg == Call("config", NoPath, NoName, "none", TRUE)
              list == Call("list", NoPath, NoName, "none", listOk)
          IN /\ worktreePath' = path
             /\ calls' = <<cfg, list>>
             /\ IF ~listOk
                  THEN Exit("Fatal", 1)
                  ELSE /\ pc' = "p_check"
                       /\ UNCHANGED <<outcome, exitCode>>

\* pruneCommand with a branch name, up to the worktree lookup
PruneStart(b, haveConfig, listOk) ==
  /\ Begin
  /\ Len(b) > 0
  /\ branchName' = b
  /\ UNCHANGED <<world, growLocals, isClean, forceDelete, multiLocals>>
  /\ IF ~haveConfig
       THEN /\ Exit("NoConfig", 1)
            /\ calls' = <<Call("config", NoPath, NoName, "none", FALSE)>>
            /\ worktreePath' = NoPath
     ELSE IF ~validateBranchName(b).valid
       THEN /\ Exit("InvalidBranchName", 1)
            /\ calls' = <<Call("config", NoPath, NoName, "none", TRUE)>>
            /\ worktreePath' = NoPath
     ELSE LET path == join(WorktreeBase, sanitizeBranchName(b))
              cfg == Call("config", NoPath, NoName, "none", TRUE)
              list == Call("list", NoPath, NoName, "none", listOk)
              marker == Call("exists", path, b, ".git", GitMarkerExists(path))
          IN /\ worktreePath' = path
             /\ IF ~listOk
                  THEN /\ Exit("Fatal", 1)
                       /\ calls' = <<cfg, list>>
                ELSE IF SeqIncludes(listWorktrees, path)
                  THEN /\ pc' = "p_check"
                       /\ calls' = <<cfg, list>>
                       /\ UNCHANGED <<outcome, exitCode>>
                ELSE IF ~GitMarkerExists(path)
                  THEN /\ Exit("WorktreeNotFound", 1)
                       /\ calls' = <<cfg, list, marker>>
                ELSE /\ pc' = "p_check"
                     /\ calls' = <<cfg, list, marker>>
                     /\ UNCHANGED <<outcome, exitCode>>

\* PruneCheck that treats a failed status call as "clean"
PruneCheck_IgnoresFailure(ok1, ok2) ==
  /\ pc = "p_check"
  /\ LET chk == StatusCheck(worktreePath, ok1, ok2)
     IN /\ calls' = calls \o chk.log
        /\ isClean' = (~chk.ok \/ chk.clean)
        /\ pc' = IF ~chk.ok \/ chk.clean THEN "p_remove" ELSE "p_confirm"
        /\ UNCHANGED <<outcome, exitCode>>
  /\ forceDelete' = FALSE
  /\ UNCHANGED <<world, branchName, worktreePath, growLocals, multiLocals,
                 startWorktrees>>

\* isWorktreeClean and getWorktreeStatus of the target
PruneCheck(ok1, ok2) ==
  /\ pc = "p_check"
  /\ LET chk == StatusCheck(worktreePath, ok1, ok2)
     IN /\ calls' = calls \o chk.log
        /\ IF ~chk.ok
             THEN /\ Exit("Fatal", 1)
                  /\ UNCHANGED isClean
             ELSE /\ isClean' = chk.clean
                  /\ pc' = IF chk.clean THEN "p_remove" ELSE "p_confirm"
                  /\ UNCHANGED <<outcome, exitCode>>
  /\ forceDelete' = FALSE
  /\ UNCHANGED <<world, branchName, worktreePath, growLocals, multiLocals,
                 startWorktrees>>

\* PruneConfirm that forces the removal whatever the answer is
PruneConfirm_IgnoresAnswer(answer) ==
  /\ pc = "p_confirm"
  /\ calls' = Append(calls, Call("confirm", worktreePath, NoName, answer, TRUE))
  /\ forceDelete' = TRUE
  /\ pc' = "p_remove"
  /\ UNCHANGED <<outcome, exitCode>>
  /\ UNCHANGED <<world, branchName, worktreePath, growLocals, isClean,
                 multiLocals, startWorktrees>>

\* p.confirm "Force delete worktree with n uncommitted change(s)?"
PruneConfirm(answer) ==
  /\ pc = "p_confirm"
  /\ calls' = Append(calls, Call("confirm", worktreePath, NoName, answer, TRUE))
  /\ IF answer = "yes"
       THEN /\ forceDelete' = TRUE
            /\ pc' = "p_remove"
            /\ UNCHANGED <<outcome, exitCode>>
       ELSE /\ UNCHANGED forceDelete
            /\ Exit("Cancelled", 0)
  /\ UNCHANGED <<world, branchName, worktreePath, growLocals, isClean,
                 multiLocals, startWorktrees>>

\* PruneRemove deleting the branch after the worktree (`git branch -D`)
PruneRemove_DeletesBranch(gitOk) ==
  /\ pc = "p_remove"
  /\ LET ok == RemoveSucceeds(worktreePath, forceDelete, gitOk)
     IN IF ok
          THEN /\ calls' = calls \o <<RemoveCall(worktreePath, forceDelete, ok),
                                      Call("branch-delete", NoPath, branchName, "-D", TRUE)>>
               /\ Removed(worktreePath)
               /\ localRefs' = localRefs \ {branchName}
               /\ Exit("Removed", 0)
          ELSE /\ calls' = Append(calls, RemoveCall(worktreePath, forceDelete, ok))
               /\ UNCHANGED <<worktrees, disk, status, localRefs>>
               /\ Exit("WorktreeRemoveFailed", 1)
  /\ UNCHANGED <<remoteRefs, upstream, locals, startWorktrees>>

\* removeWorktree(worktreePath, forceDelete)
PruneRemove(gitOk) ==
  /\ pc = "p_remove"
  /\ LET ok == RemoveSucceeds(worktreePath, forceDelete, gitOk)
     IN /\ calls' = Append(calls, RemoveCall(worktreePath, forceDelete, ok))
        /\ IF ok
             THEN /\ Removed(worktreePath)
                  /\ Exit("Removed", 0)
             ELSE /\ UNCHANGED <<worktrees, disk, status>>
                  /\ Exit("WorktreeRemoveFailed", 1)
  /\ UNCHANGED <<localRefs, remoteRefs, upstream, locals, startWorktrees>>

\* -------------------------------------------------- prune (multi-select)
\* wt.startsWith(config.repo.worktree_base)
\* the configuration's directories as the strings git and bonsai exchange
DirString(dir) ==
  CASE dir = "base" -> <<"/", "w", "t">>
    [] dir = "sibling" -> <<"/", "w", "t", "-", "o", "l", "d">>
    [] dir = "repo" -> <<"/", "r">>
    [] OTHER -> <<>>
PathString(p) ==
  IF p.name = <<>> THEN DirString(p.dir)
  ELSE DirString(p.dir) \o <<"/">> \o p.name
startsWith(s, prefix) ==
  Len(prefix) <= Len(s) /\ SubSeq(s, 1, Len(prefix)) = prefix

\* wt.startsWith(config.repo.worktree_base)
InBase(p) == startsWith(PathString(p), PathString(WorktreeBase))

RECURSIVE HintCalls(_)
\* the status calls that build the options' hints, failures swallowed
HintCalls(ps) ==
  IF ps = <<>> THEN <<>>
  ELSE StatusCheck(Head(ps), TRUE, TRUE).log \o HintCalls(Tail(ps))

\* a git subprocess in flight: which wrapper spawned it, for which path
Process(what, p) == [what |-> what, path |-> p]

\* pruneMultipleWorktrees up to the Promise.all over the candidates: every
\* callback of the map runs to its first await, so one `git status` per
\* candidate has been spawned when Promise.all is awaited
MultiStart(haveConfig, listOk) ==
  /\ Begin
  /\ branchName' = NoName
  /\ worktreePath' = NoPath
  /\ UNCHANGED <<world, growLocals, isClean, forceDelete, selected, idx,
                 results, summary, display, configLocals, sessions>>
  /\ LET cfg == Call("config", NoPath, NoName, "none", haveConfig)
         list == Call("list", NoPath, NoName, "none", listOk)
         filtered == SelectSeq(listWorktrees, InBase)
     IN IF ~haveConfig
          THEN /\ Exit("NoConfig", 1)
               /\ calls' = <<cfg>>
               /\ UNCHANGED <<bonsaiWorktrees, running>>
        ELSE IF ~listOk
          THEN /\ Exit("Fatal", 1)
               /\ calls' = <<cfg, list>>
               /\ UNCHANGED <<bonsaiWorktrees, running>>
        ELSE IF Len(filtered) = 0
          THEN /\ Exit("NoWorktrees", 0)
               /\ calls' = <<cfg, list>>
               /\ UNCHANGED <<bonsaiWorktrees, running>>
        ELSE /\ bonsaiWorktrees' = filtered
             /\ running' = {Process("isWorktreeClean", filtered[i]) :
                              i \in 1..Len(filtered)}
             /\ calls' = <<cfg, list>>
             /\ pc' = "m_hints"
             /\ UNCHANGED <<outcome, exitCode>>

\* one of the spawned `git status` exits: after isWorktreeClean the callback
\* spawns getWorktreeStatus for the same path, unless the first one threw
MultiHint(r) ==
  /\ pc = "m_hints"
  /\ r \in running
  /\ running' =
       IF r.what = "isWorktreeClean" /\ StatusSucceeds(r.path, TRUE)
         THEN (running \ {r}) \cup {Process("getWorktreeStatus", r.path)}
         ELSE running \ {r}
  /\ UNCHANGED <<world, pc, branchName, worktreePath, growLocals, isClean,
                 forceDelete, bonsaiWorktrees, display, configLocals, sessions, selected, idx, results,
                 summary, calls, outcome, exitCode, startWorktrees>>

\* MultiOptions tidying stale records away before the list is shown
MultiOptions_PrunesStale ==
  /\ pc = "m_hints"
  /\ running = {}
  /\ calls' = calls \o HintCalls(bonsaiWorktrees)
                 \o <<Call("prune", NoPath, NoName, "none", TRUE)>>
  /\ worktrees' = WithoutStale
  /\ pc' = "m_select"
  /\ UNCHANGED <<disk, status, localRefs, remoteRefs, upstream, branchName,
                 worktreePath, growLocals, isClean, forceDelete,
                 bonsaiWorktrees, running, display, configLocals, sessions, selected, idx, results, summary,
                 outcome, exitCode, startWorktrees>>

\* Promise.all resolves with the options in the order of the candidates;
\* the status calls are entered in the log in that order
MultiOptions ==
  /\ pc = "m_hints"
  /\ running = {}
  /\ calls' = calls \o HintCalls(bonsaiWorktrees)
  /\ pc' = "m_select"
  /\ UNCHANGED <<world, branchName, worktreePath, growLocals, isClean,
                 forceDelete, bonsaiWorktrees, running, display, configLocals, sessions, selected, idx, results,
                 summary, outcome, exitCode, startWorktrees>>

\* what p.multiselect can return: the ticked options, each at most once
Selections(options) ==
  LET S == {options[i] : i \in 1..Len(options)}
  IN UNION {{sel \in [1..n -> S] : \A i, j \in 1..n : sel[i] = sel[j] => i = j} :
              n \in 0..MaxSelect}

\* the prompt returns; cancelling or ticking nothing ends the command
MultiSelect(sel) ==
  /\ pc = "m_select"
  /\ sel \in Selections(bonsaiWorktrees)
  /\ selected' = sel
  /\ results' = <<>>
  /\ calls' = Append(calls, Call("multiselect", NoPath, NoName, "none", Len(sel) > 0))
  /\ IF Len(sel) = 0
       THEN /\ Exit("NothingSelected", 0)
            /\ UNCHANGED idx
       ELSE /\ idx' = 1
            /\ pc' = "m_check"
            /\ UNCHANGED <<outcome, exitCode>>
  /\ UNCHANGED <<world, branchName, worktreePath, growLocals, isClean,
                 forceDelete, bonsaiWorktrees, running, display, configLocals, sessions, summary, startWorktrees>>

PruneResult(p, success, force, cancelled, error) ==
  [worktreeName |-> p.name, success |-> success, forceDelete |-> force,
   cancelled |-> cancelled, error |-> error]

\* results.push(r) ends pruneSingleWorktree; the for loop goes on
Push(r) ==
  /\ results' = Append(results, r)
  /\ idx' = idx + 1
  /\ pc' = IF idx + 1 > Len(selected) THEN "m_summary" ELSE "m_check"

\* MultiCheck walking the selection from its end
MultiCheck_LastFirst(ok1, ok2) ==
  /\ pc = "m_check"
  /\ LET target == selected[Len(selected) + 1 - idx]
         chk == StatusCheck(target, ok1, ok2)
     IN /\ calls' = calls \o chk.log
        /\ worktreePath' = target
        /\ IF ~chk.ok
             THEN /\ Push(PruneResult(target, FALSE, FALSE, FALSE, "status"))
                  /\ UNCHANGED isClean
             ELSE /\ isClean' = chk.clean
                  /\ pc' = IF chk.clean THEN "m_remove" ELSE "m_confirm"
                  /\ UNCHANGED <<results, idx>>
  /\ forceDelete' = FALSE
  /\ UNCHANGED <<world, branchName, growLocals, bonsaiWorktrees, running, display, configLocals, sessions, selected,
                 summary, outcome, exitCode, startWorktrees>>

\* pruneSingleWorktree: the status check of the current target
MultiCheck(ok1, ok2) ==
  /\ pc = "m_check"
  /\ LET target == selected[idx]
         chk == StatusCheck(target, ok1, ok2)
     IN /\ calls' = calls \o chk.log
        /\ worktreePath' = target
        /\ IF ~chk.ok
             THEN /\ Push(PruneResult(target, FALSE, FALSE, FALSE, "status"))
                  /\ UNCHANGED isClean
             ELSE /\ isClean' = chk.clean
                  /\ pc' = IF chk.clean THEN "m_remove" ELSE "m_confirm"
                  /\ UNCHANGED <<results, idx>>
  /\ forceDelete' = FALSE
  /\ UNCHANGED <<world, branchName, growLocals, bonsaiWorktrees, running, display, configLocals, sessions, selected,
                 summary, outcome, exitCode, startWorktrees>>

\* MultiConfirm that forces the removal whatever the answer is
MultiConfirm_IgnoresAnswer(answer) ==
  /\ pc = "m_confirm"
  /\ calls' = Append(calls, Call("confirm", worktreePath, NoName, answer, TRUE))
  /\ forceDelete' = TRUE
  /\ pc' = "m_remove"
  /\ UNCHANGED <<results, idx>>
  /\ UNCHANGED <<world, branchName, worktreePath, growLocals, isClean,
                 bonsaiWorktrees, running, display, configLocals, sessions, selected, summary, outcome, exitCode,
                 startWorktrees>>

\* pruneSingleWorktree: the force prompt of the current target
MultiConfirm(answer) ==
  /\ pc = "m_confirm"
  /\ calls' = Append(calls, Call("confirm", worktreePath, NoName, answer, TRUE))
  /\ IF answer = "yes"
       THEN /\ forceDelete' = TRUE
            /\ pc' = "m_remove"
            /\ UNCHANGED <<results, idx>>
       ELSE /\ UNCHANGED forceDelete
            /\ Push(PruneResult(worktreePath, FALSE, FALSE, TRUE, "none"))
  /\ UNCHANGED <<world, branchName, worktreePath, growLocals, isClean,
                 bonsaiWorktrees, running, display, configLocals, sessions, selected, summary, outcome, exitCode,
                 startWorktrees>>

\* MultiRemove without the try/catch: a GitError leaves the batch
MultiRemove_Throws(gitOk) ==
  /\ pc = "m_remove"
  /\ LET ok == RemoveSucceeds(worktreePath, forceDelete, gitOk)
     IN /\ calls' = Append(calls, RemoveCall(worktreePath, forceDelete, ok))
        /\ IF ok
             THEN /\ Removed(worktreePath)
                  /\ Push(PruneResult(worktreePath, TRUE, forceDelete, FALSE, "none"))
                  /\ UNCHANGED <<outcome, exitCode>>
             ELSE /\ UNCHANGED <<worktrees, disk, status, results, idx>>
                  /\ Exit("Fatal", 1)
  /\ UNCHANGED <<localRefs, remoteRefs, upstream, branchName, worktreePath,
                 growLocals, isClean, forceDelete, bonsaiWorktrees, running, display, configLocals, sessions, selected,
                 summary, startWorktrees>>

\* pruneSingleWorktree: removeWorktree inside the try block
MultiRemove(gitOk) ==
  /\ pc = "m_remove"
  /\ LET ok == RemoveSucceeds(worktreePath, forceDelete, gitOk)
     IN /\ calls' = Append(calls, RemoveCall(worktreePath, forceDelete, ok))
        /\ IF ok
             THEN /\ Removed(worktreePath)
                  /\ Push(PruneResult(worktreePath, TRUE, forceDelete, FALSE, "none"))
             ELSE /\ UNCHANGED <<worktrees, disk, status>>
                  /\ Push(PruneResult(worktreePath, FALSE, FALSE, FALSE, "remove"))
  /\ UNCHANGED <<localRefs, remoteRefs, upstream, branchName, worktreePath,
                 growLocals, isClean, forceDelete, bonsaiWorktrees, running, display, configLocals, sessions, selected,
                 summary, outcome, exitCode, startWorktrees>>

Count(rs, Test(_)) == Len(SelectSeq(rs, Test))

\* the counts printed under "Summary:"
summaryCounts(rs) ==
  [successful |-> Count(rs, LAMBDA r : r.success),
   failed |-> Count(rs, LAMBDA r : ~r.success)]

\* the summary is printed and pruneMultipleWorktrees returns
MultiSummary ==
  /\ pc = "m_summary"
  /\ summary' = summaryCounts(results)
  /\ Exit("BatchDone", 0)
  /\ UNCHANGED <<world, branchName, worktreePath, growLocals, isClean,
                 forceDelete, bonsaiWorktrees, running, display, configLocals, sessions, selected, idx, results, calls,
                 startWorktrees>>

\* the process has ended; the next command may start
Return ==
  /\ pc = "done"
  /\ pc' = "idle"
  /\ branchName' = NoName
  /\ worktreePath' = NoPath
  /\ exists' = FALSE
  /\ isRemote' = FALSE
  /\ existingWorktree' = NoWorktree
  /\ isClean' = FALSE
  /\ forceDelete' = FALSE
  /\ bonsaiWorktrees' = <<>>
  /\ running' = {}
  /\ porcelain' = <<>>
  /\ formattedLines' = <<>>
  /\ changeCount' = 0
  /\ configFile' = NoObject
  /\ parsed' = NoObject
  /\ config' = NoObject
  /\ updated' = FALSE
  /\ UNCHANGED sessions
  /\ selected' = <<>>
  /\ idx' = 0
  /\ results' = <<>>
  /\ summary' = NoSummary
  /\ calls' = <<>>
  /\ outcome' = "none"
  /\ exitCode' = -1
  /\ setupCommands' = <<>>
  /\ setupIndex' = 0
  /\ setupFailed' = FALSE
  /\ startWorktrees' = [worktrees |-> worktrees, disk |-> disk]
  /\ UNCHANGED world

Answers == {"yes", "no", "cancel"}

Next ==
  \/ \E p \in Paths : ExternalDelete(p)
  \/ \E p \in Paths : \E kind \in {"file"} : ExternalCreate(p, kind)
  \/ \E p \in Paths : \E n \in 0..MaxChanges : ExternalEdit(p, n)
  \/ \E b \in Names \cup {NoName} : \E haveConfig \in BOOLEAN : GrowStart(b, haveConfig)
  \/ \E ok \in BOOLEAN : GrowFetch(ok)
  \/ GrowClassify
  \/ \E listOk \in BOOLEAN : GrowCheckConflict(listOk)
  \/ \E answer \in Answers : GrowConfirm(answer)
  \/ \E ok \in BOOLEAN : GrowPrune(ok)
  \/ \E gitOk \in BOOLEAN : GrowCreate(gitOk)
  \/ \E cmds \in SetupLists : \E editor \in EditorResults : GrowEditor(cmds, editor)
  \/ \E ok \in BOOLEAN : GrowSetup(ok)
  \/ GrowFinish
  \/ \E cwd \in AllPaths : \E haveConfig \in BOOLEAN : \E cmds \in SetupLists :
       SetupStart(cwd, haveConfig, cmds)
  \/ \E ok \in BOOLEAN : SetupStep(ok)
  \/ SetupFinish
  \/ \E b \in Names : \E haveConfig, listOk \in BOOLEAN : PruneStart(b, haveConfig, listOk)
  \/ \E ok1, ok2 \in BOOLEAN : PruneCheck(ok1, ok2)
  \/ \E answer \in Answers : PruneConfirm(answer)
  \/ \E gitOk \in BOOLEAN : PruneRemove(gitOk)
  \/ \E haveConfig, listOk \in BOOLEAN : MultiStart(haveConfig, listOk)
  \/ \E r \in running : MultiHint(r)
  \/ MultiOptions
  \/ \E sel \in Selections(bonsaiWorktrees) : MultiSelect(sel)
  \/ \E ok1, ok2 \in BOOLEAN : MultiCheck(ok1, ok2)
  \/ \E answer \in Answers : MultiConfirm(answer)
  \/ \E gitOk \in BOOLEAN : MultiRemove(gitOk)
  \/ MultiSummary
  \/ Return

Spec == Init /\ [][Next]_vars

\* ------------------------------------------- the library functions alone
\* one character of each class the validator tells apart: a letter, the
\* hyphen, the dot, the slash, a blank and a character outside the set
Alphabet == {"a", "-", ".", "/", " ", "~"}
Strings == UNION {[1..n -> Alphabet] : n \in 0..MaxLen}

\* names longer than MaxLen that the rules of the validator single out
Examples ==
  {<<"-", "f", "o", "o">>,
   <<"a", ".", ".", "b">>,
   <<"x", ".", "l", "o", "c", "k">>,
   <<"f", "e", "a", "t", "u", "r", "e", "/", "a", "u", "t", "h">>,
   <<".", "l", "o", "c", "k">>,
   <<"-", ".", "l", "o", "c", "k">>,
   <<"~", ".", "l", "o", "c", "k">>,
   <<".", ".", "l", "o", "c", "k">>,
   <<"a", "/", "b", "/", "c", "/", "d">>,
   <<"l", "o", "c", "k">>}

InputStrings == Strings \cup Examples \cup Names

\* ------------------------------------------------ the dirty listing
\* the characters of a porcelain status code: the blank, the six the
\* listing names, and one it does not name
StatusChars == {" ", "M", "A", "D", "?", "R", "U", "T"}
StatusCodes == {c \in StatusChars \X StatusChars : c # <<" ", " ">>}

\* the path of the i-th changed file; git reports a path once
ChangedPaths == << <<"f", "g">>, <<"h">>, <<"i", "j", "k">>, <<"l", "m">> >>
StatusLine(i, code) == [x |-> code[1], y |-> code[2], path |-> ChangedPaths[i]]

\* what `git status --porcelain` can emit for a dirty worktree: one line per
\* changed file
StatusOutput(codes) == [i \in 1..Len(codes) |-> StatusLine(i, codes[i])]

\* the bytes of the output: each line is XY, a blank, the path and a newline
RECURSIVE stdout(_)
stdout(emitted) ==
  IF emitted = <<>> THEN <<>>
  ELSE <<Head(emitted).x, Head(emitted).y, " ">> \o Head(emitted).path
       \o <<"\n">> \o stdout(Tail(emitted))

\* String.prototype.trim, split, slice and Array.prototype.filter(Boolean)
RECURSIVE trimStart(_)
trimStart(t) ==
  IF t # <<>> /\ Head(t) \in Whitespace THEN trimStart(Tail(t)) ELSE t
RECURSIVE trimEnd(_)
trimEnd(t) ==
  IF t # <<>> /\ t[Len(t)] \in Whitespace
  THEN trimEnd(SubSeq(t, 1, Len(t) - 1)) ELSE t
trim(t) == trimEnd(trimStart(t))
RECURSIVE split(_, _)
split(t, sep) ==
  IF \E i \in 1..Len(t) : t[i] = sep
  THEN LET i == CHOOSE k \in 1..Len(t) :
                  t[k] = sep /\ \A j \in 1..(k - 1) : t[j] # sep
       IN <<SubSeq(t, 1, i - 1)>> \o split(SubSeq(t, i + 1, Len(t)), sep)
  ELSE <<t>>
Truthy(t) == t # <<>>
filterBoolean(ts) == SelectSeq(ts, Truthy)
slice(t, start, end) ==
  SubSeq(t, start + 1, IF end < Len(t) THEN end ELSE Len(t))
charAt(t, i) == IF i < Len(t) THEN t[i + 1] ELSE "undefined"
RECURSIVE String(_)
String(t) == IF t = <<>> THEN "" ELSE Head(t) \o String(Tail(t))

\* getWorktreeStatus: the output of the git command, trimmed
getWorktreeStatus(emitted) == trim(stdout(emitted))

FormattedLine(statusLabel, color, filePath) ==
  [statusLabel |-> statusLabel, color |-> color, filePath |-> filePath]

pruneCommand_formatLine_IndexFirst(line) ==
  LET statusCode == slice(line, 0, 2)
      filePath == slice(line, 3, Len(line))
      indexStatus == charAt(statusCode, 0)
      worktreeStatus == charAt(statusCode, 1)
      effectiveStatus ==
        IF indexStatus # " " THEN indexStatus ELSE worktreeStatus
  IN CASE effectiveStatus = "M" -> FormattedLine("modified", "yellow", filePath)
       [] effectiveStatus = "A" -> FormattedLine("added", "green", filePath)
       [] effectiveStatus = "D" -> FormattedLine("deleted", "red", filePath)
       [] effectiveStatus = "?" -> FormattedLine("untracked", "gray", filePath)
       [] effectiveStatus = "R" -> FormattedLine("renamed", "blue", filePath)
       [] effectiveStatus = "U" -> FormattedLine("unmerged", "magenta", filePath)
       [] OTHER ->
            FormattedLine(IF trim(statusCode) # <<>>
                          THEN String(trim(statusCode)) ELSE "changed",
                          "white", filePath)

\* the callback of lines.map in pruneCommand
pruneCommand_formatLine(line) ==
  LET statusCode == slice(line, 0, 2)
      filePath == slice(line, 3, Len(line))
      indexStatus == charAt(statusCode, 0)
      worktreeStatus == charAt(statusCode, 1)
      effectiveStatus ==
        IF worktreeStatus # " " THEN worktreeStatus ELSE indexStatus
  IN CASE effectiveStatus = "M" -> FormattedLine("modified", "yellow", filePath)
       [] effectiveStatus = "A" -> FormattedLine("added", "green", filePath)
       [] effectiveStatus = "D" -> FormattedLine("deleted", "red", filePath)
       [] effectiveStatus = "?" -> FormattedLine("untracked", "gray", filePath)
       [] effectiveStatus = "R" -> FormattedLine("renamed", "blue", filePath)
       [] effectiveStatus = "U" -> FormattedLine("unmerged", "magenta", filePath)
       [] OTHER ->
            FormattedLine(IF trim(statusCode) # <<>>
                          THEN String(trim(statusCode)) ELSE "changed",
                          "white", filePath)

\* the callback of lines.map in pruneSingleWorktree
pruneSingleWorktree_formatLine(line) ==
  LET statusCode == slice(line, 0, 2)
      filePath == slice(line, 3, Len(line))
      indexStatus == charAt(statusCode, 0)
      worktreeStatus == charAt(statusCode, 1)
      effectiveStatus ==
        IF worktreeStatus # " " THEN worktreeStatus ELSE indexStatus
  IN CASE effectiveStatus = "M" -> FormattedLine("modified", "yellow", filePath)
       [] effectiveStatus = "A" -> FormattedLine("added", "green", filePath)
       [] effectiveStatus = "D" -> FormattedLine("deleted", "red", filePath)
       [] effectiveStatus = "?" -> FormattedLine("untracked", "gray", filePath)
       [] effectiveStatus = "R" -> FormattedLine("renamed", "blue", filePath)
       [] effectiveStatus = "U" -> FormattedLine("unmerged", "magenta", filePath)
       [] OTHER ->
            FormattedLine(IF trim(statusCode) # <<>>
                          THEN String(trim(statusCode)) ELSE "changed",
                          "white", filePath)

\* a caller is about to pass a string to the library; the repository is in
\* one of the states that decide how createWorktree attaches the branch
FnInit ==
  /\ \/ /\ branchName \in InputStrings
        /\ localRefs \in {{M}, {M, A}}
        /\ remoteRefs \in {{M}, {M, A}}
        /\ porcelain = <<>>
        /\ pc = "fn_input"
     \/ /\ branchName = NoName
        /\ localRefs = {M}
        /\ remoteRefs = {M}
        /\ \E n \in 1..MaxLines : \E codes \in [1..n -> StatusCodes] :
             porcelain = StatusOutput(codes)
        /\ pc = "fn_status"
  /\ upstream = remoteRefs
  /\ worktrees = <<[path |-> RepoPath, branch |-> M]>>
  /\ disk = [p \in AllPaths |-> IF p = RepoPath THEN "wtdir" ELSE "none"]
  /\ status = [p \in AllPaths |-> 0]
  /\ worktreePath = NoPath
  /\ exists = FALSE
  /\ isRemote = FALSE
  /\ existingWorktree = NoWorktree
  /\ isClean = FALSE
  /\ forceDelete = FALSE
  /\ bonsaiWorktrees = <<>>
  /\ running = {}
  /\ formattedLines = <<>>
  /\ changeCount = 0
  /\ configFile = NoObject
  /\ parsed = NoObject
  /\ config = NoObject
  /\ updated = FALSE
  /\ NoSessions
  /\ selected = <<>>
  /\ idx = 0
  /\ results = <<>>
  /\ summary = NoSummary
  /\ calls = <<>>
  /\ outcome = "none"
  /\ exitCode = -1
  /\ setupCommands = <<>>
  /\ setupIndex = 0
  /\ setupFailed = FALSE
  /\ startWorktrees = [worktrees |-> worktrees, disk |-> disk]

\* validateBranchName(branchName): the result is kept in the log
FnValidate ==
  /\ pc = "fn_input"
  /\ LET r == validateBranchName(branchName)
     IN calls' = Append(calls, Call("validate", NoPath, branchName, r.error, r.valid))
  /\ pc' = "fn_validated"
  /\ UNCHANGED <<world, locals, outcome, exitCode, startWorktrees>>

\* sanitizeBranchName(branchName) of an accepted name, joined to the base
FnSanitize ==
  /\ pc = "fn_validated"
  /\ calls[Len(calls)].ok
  /\ LET folderName == sanitizeBranchName(branchName)
         path == join(WorktreeBase, folderName)
     IN /\ worktreePath' = path
        /\ calls' = Append(calls, Call("sanitize", path, folderName, "none", TRUE))
  /\ pc' = "fn_sanitized"
  /\ UNCHANGED <<world, branchName, exists, isRemote, existingWorktree, isClean,
                 forceDelete, multiLocals, postLocals, outcome, exitCode,
                 startWorktrees>>

\* the caller builds the options argument, with or without startPoint, for
\* the names whose folder the model's disk holds
FnOptions(hasStartPoint) ==
  /\ pc = "fn_sanitized"
  /\ worktreePath \in Paths
  /\ calls' = Append(calls,
        Call("options", NoPath, NoName,
             IF hasStartPoint THEN "startPoint" ELSE "none", hasStartPoint))
  /\ pc' = "fn_create"
  /\ UNCHANGED <<world, locals, outcome, exitCode, startWorktrees>>

\* createWorktree(worktreePath, branchName, options)
FnCreateWorktree(gitOk) ==
  /\ pc = "fn_create"
  /\ createWorktree(calls[Len(calls)].ok, gitOk, "fn_created")
  /\ UNCHANGED <<status, remoteRefs, upstream, locals, startWorktrees>>

\* pruneCommand, from the status read to the force prompt of a dirty target
FnListSingle ==
  /\ pc = "fn_status"
  /\ LET status_ == getWorktreeStatus(porcelain)
         lines == filterBoolean(split(status_, "\n"))
     IN /\ formattedLines' =
             [i \in 1..Len(lines) |-> pruneCommand_formatLine(lines[i])]
        /\ changeCount' = Len(lines)
  /\ calls' = Append(calls, Call("confirm", NoPath, NoName, "single", TRUE))
  /\ pc' = "fn_listed"
  /\ UNCHANGED <<world, branchName, worktreePath, growLocals, isClean,
                 forceDelete, bonsaiWorktrees, running, porcelain, selected,
                 idx, results, summary, outcome, exitCode, startWorktrees,
                 configLocals, sessions>>

\* pruneSingleWorktree, from the status read to the force prompt
FnListMulti ==
  /\ pc = "fn_status"
  /\ LET status_ == getWorktreeStatus(porcelain)
         lines == filterBoolean(split(status_, "\n"))
     IN /\ formattedLines' =
             [i \in 1..Len(lines) |-> pruneSingleWorktree_formatLine(lines[i])]
        /\ changeCount' = Len(lines)
  /\ calls' = Append(calls, Call("confirm", NoPath, NoName, "multi", TRUE))
  /\ pc' = "fn_listed"
  /\ UNCHANGED <<world, branchName, worktreePath, growLocals, isClean,
                 forceDelete, bonsaiWorktrees, running, porcelain, selected,
                 idx, results, summary, outcome, exitCode, startWorktrees,
                 configLocals, sessions>>

FnNext ==
  \/ FnValidate
  \/ FnSanitize
  \/ \E hasStartPoint \in BOOLEAN : FnOptions(hasStartPoint)
  \/ \E gitOk \in BOOLEAN : FnCreateWorktree(gitOk)
  \/ FnListSingle
  \/ FnListMulti

FnSpec == FnInit /\ [][FnNext]_vars

\* ------------------------------------- multi-select prune next to a sibling
\* the repository has a worktree for branch a in the sibling directory (made
\* with git itself, or under an earlier worktree_base) and may have one for
\* a/b under the base
SiblingInit ==
  /\ localRefs = {M, A}
  /\ remoteRefs = {M}
  /\ upstream = {M}
  /\ \E underBase \in BOOLEAN :
       /\ worktrees =
            <<[path |-> RepoPath, branch |-> M],
              [path |-> SiblingPath, branch |-> A]>>
            \o (IF underBase
                THEN <<[path |-> join(WorktreeBase, A_B), branch |-> AB]>>
                ELSE <<>>)
       /\ disk = [p \in AllPaths |->
                   IF \/ p \in {RepoPath, SiblingPath}
                      \/ underBase /\ p = join(WorktreeBase, A_B)
                   THEN "wtdir" ELSE "none"]
  /\ status = [p \in AllPaths |-> 0]
  /\ pc = "idle"
  /\ branchName = NoName
  /\ worktreePath = NoPath
  /\ exists = FALSE
  /\ isRemote = FALSE
  /\ existingWorktree = NoWorktree
  /\ isClean = FALSE
  /\ forceDelete = FALSE
  /\ bonsaiWorktrees = <<>>
  /\ running = {}
  /\ porcelain = <<>>
  /\ formattedLines = <<>>
  /\ changeCount = 0
  /\ configFile = NoObject
  /\ parsed = NoObject
  /\ config = NoObject
  /\ updated = FALSE
  /\ NoSessions
  /\ selected = <<>>
  /\ idx = 0
  /\ results = <<>>
  /\ summary = NoSummary
  /\ calls = <<>>
  /\ outcome = "none"
  /\ exitCode = -1
  /\ setupCommands = <<>>
  /\ setupIndex = 0
  /\ setupFailed = FALSE
  /\ startWorktrees = [worktrees |-> worktrees, disk |-> disk]

SiblingNext ==
  \/ \E p \in AllPaths : \E n \in 0..MaxChanges : ExternalEdit(p, n)
  \/ \E haveConfig, listOk \in BOOLEAN : MultiStart(haveConfig, listOk)
  \/ \E r \in running : MultiHint(r)
  \/ MultiOptions
  \/ \E sel \in Selections(bonsaiWorktrees) : MultiSelect(sel)
  \/ \E ok1, ok2 \in BOOLEAN : MultiCheck(ok1, ok2)
  \/ \E answer \in Answers : MultiConfirm(answer)
  \/ \E gitOk \in BOOLEAN : MultiRemove(gitOk)
  \/ MultiSummary
  \/ Return

SiblingSpec == SiblingInit /\ [][SiblingNext]_vars

\* ------------------------------------------------- the configuration file
\* values are written as their literals; TOML and JavaScript share the
\* literals of strings, integers, booleans and arrays
NaN == "NaN"
TomlDate == "TomlDate(1979-05-27)"
Null == "null"

\* smol-toml's parse of one value: a float `nan` and a date have no shared literal
parseValue(v) ==
  CASE v = "nan" -> NaN
    [] v = "1979-05-27" -> TomlDate
    [] OTHER -> v
parseTable(t) ==
  [kind |-> t.kind, leaf |-> parseValue(t.leaf),
   fields |-> [k \in SubKeys |-> parseValue(t.fields[k])]]
parse(content) == [k \in TopKeys |-> parseTable(content[k])]

\* JSON.parse(JSON.stringify(v)) of one value: NaN is written as null, a
\* Date as the string of its toJSON
jsonValue(v) ==
  CASE v = NaN -> Null
    [] v = TomlDate -> "\"1979-05-27\""
    [] OTHER -> v
jsonTable(t) ==
  [kind |-> t.kind, leaf |-> jsonValue(t.leaf),
   fields |-> [k \in SubKeys |-> jsonValue(t.fields[k])]]
jsonClone(obj) == [k \in TopKeys |-> jsonTable(obj[k])]

\* smol-toml's stringify of one value
stringifyValue(v) ==
  CASE v = NaN -> "nan"
    [] v = TomlDate -> "1979-05-27"
    [] OTHER -> v
stringifyTable(t) ==
  [kind |-> t.kind, leaf |-> stringifyValue(t.leaf),
   fields |-> [k \in SubKeys |-> stringifyValue(t.fields[k])]]
stringify(obj) == [k \in TopKeys |-> stringifyTable(obj[k])]
\* TOML has no null: stringify either fails or leaves the key out
HasNull(obj) ==
  \E k \in TopKeys :
    obj[k].leaf = Null \/ \E f \in SubKeys : obj[k].fields[f] = Null
WithoutNull(obj) ==
  [k \in TopKeys |->
     [kind |-> obj[k].kind,
      leaf |-> IF obj[k].leaf = Null THEN "undefined" ELSE obj[k].leaf,
      fields |-> [f \in SubKeys |->
                    IF obj[k].fields[f] = Null THEN "undefined"
                    ELSE obj[k].fields[f]]]]

DEFAULT_CONFIG ==
  [k \in TopKeys |->
     CASE k = "repo" -> Object([NoFields EXCEPT !["main_branch"] = "\"main\""])
       [] k = "editor" -> Object([NoFields EXCEPT !["name"] = "\"cursor\""])
       [] k = "setup" -> Object([NoFields EXCEPT !["commands"] = "[]"])
       [] k = "behavior" ->
            Object([NoFields EXCEPT !["navigate_after_grow"] = "false",
                                    !["post_creation_action"] = "1"])
       [] OTHER -> Undefined]
MIGRATION_DEFAULTS ==
  [k \in TopKeys |->
     IF k = "behavior"
       THEN Object([NoFields EXCEPT !["post_creation_action"] = "0"])
       ELSE Undefined]

\* defaultsDeep on a nested table: the defaults there are not objects
defaultsDeepFields(target, defaults) ==
  [target |-> [k \in SubKeys |->
                 IF defaults[k] # "undefined" /\ target[k] = "undefined"
                   THEN defaults[k] ELSE target[k]],
   changed |-> \E k \in SubKeys :
                 defaults[k] # "undefined" /\ target[k] = "undefined"]

\* defaultsDeep(target, defaults, changed): a missing key is set to the
\* default, a table is descended into when the default is a table too
defaultsDeep(target, defaults) ==
  LET nested(k) == defaultsDeepFields(target[k].fields, defaults[k].fields)
      missing(k) == defaults[k] # Undefined /\ target[k] = Undefined
      descend(k) == /\ defaults[k] # Undefined
                    /\ target[k].kind = "object"
                    /\ defaults[k].kind = "object"
  IN [target |-> [k \in TopKeys |->
                    IF missing(k) THEN defaults[k]
                    ELSE IF descend(k) THEN Object(nested(k).target)
                    ELSE target[k]],
      changed |-> \E k \in TopKeys :
                    missing(k) \/ (descend(k) /\ nested(k).changed)]

\* mergeConfigWithDefaults applying the migration defaults last
mergeConfigWithDefaults_DefaultsFirst(input, isMigration) ==
  LET merged == jsonClone(input)
      standard == defaultsDeep(merged, DEFAULT_CONFIG)
      migration == IF isMigration
                     THEN defaultsDeep(standard.target, MIGRATION_DEFAULTS)
                     ELSE [target |-> standard.target, changed |-> FALSE]
  IN [config |-> migration.target,
      updated |-> migration.changed \/ standard.changed]

mergeConfigWithDefaults(input, isMigration) ==
  LET merged == jsonClone(input)
      migration == IF isMigration
                     THEN defaultsDeep(merged, MIGRATION_DEFAULTS)
                     ELSE [target |-> merged, changed |-> FALSE]
      standard == defaultsDeep(migration.target, DEFAULT_CONFIG)
  IN [config |-> standard.target,
      updated |-> migration.changed \/ standard.changed]

\* an existing config file: repo.path is there, every optional key may be
\* missing, and the user may have added a key of their own
ConfigInit ==
  /\ \E mainBranch \in {"undefined", "\"dev\""} :
     \E editor \in {"none", "undefined", "\"zed\""} :
     \E commands \in {"none", "undefined", "[\"cmd1\"]"} :
     \E navigate \in {"none", "undefined", "true"} :
     \E action \in {"undefined", "0", "1"} :
     \E extra \in {"undefined", "\"x\"", "nan", "1979-05-27"} :
       /\ navigate = "none" => action = "undefined"
       /\ configFile =
            [k \in TopKeys |->
               CASE k = "repo" ->
                      Object([NoFields EXCEPT !["path"] = "\"/r\"",
                                              !["main_branch"] = mainBranch])
                 [] k = "editor" ->
                      IF editor = "none" THEN Undefined
                      ELSE Object([NoFields EXCEPT !["name"] = editor])
                 [] k = "setup" ->
                      IF commands = "none" THEN Undefined
                      ELSE Object([NoFields EXCEPT !["commands"] = commands])
                 [] k = "behavior" ->
                      IF navigate = "none" THEN Undefined
                      ELSE Object([NoFields EXCEPT
                                     !["navigate_after_grow"] = navigate,
                                     !["post_creation_action"] = action])
                 [] OTHER -> Leaf(extra)]
  /\ parsed = NoObject
  /\ config = NoObject
  /\ updated = FALSE
  /\ NoSessions
  /\ pc = "cfg_file"
  /\ localRefs = {M}
  /\ remoteRefs = {M}
  /\ upstream = {M}
  /\ worktrees = <<[path |-> RepoPath, branch |-> M]>>
  /\ disk = [p \in AllPaths |-> IF p = RepoPath THEN "wtdir" ELSE "none"]
  /\ status = [p \in AllPaths |-> 0]
  /\ branchName = NoName
  /\ worktreePath = NoPath
  /\ exists = FALSE
  /\ isRemote = FALSE
  /\ existingWorktree = NoWorktree
  /\ isClean = FALSE
  /\ forceDelete = FALSE
  /\ bonsaiWorktrees = <<>>
  /\ running = {}
  /\ porcelain = <<>>
  /\ formattedLines = <<>>
  /\ changeCount = 0
  /\ selected = <<>>
  /\ idx = 0
  /\ results = <<>>
  /\ summary = NoSummary
  /\ calls = <<>>
  /\ outcome = "none"
  /\ exitCode = -1
  /\ setupCommands = <<>>
  /\ setupIndex = 0
  /\ setupFailed = FALSE
  /\ startWorktrees = [worktrees |-> worktrees, disk |-> disk]

outsideConfig ==
  <<world, branchName, worktreePath, growLocals, isClean, forceDelete,
    bonsaiWorktrees, running, display, sessions, selected, idx, results,
    summary, outcome, exitCode, startWorktrees>>

\* loadConfigFromPath: the file is read and parsed
CfgParse ==
  /\ pc = "cfg_file"
  /\ parsed' = parse(configFile)
  /\ calls' = Append(calls, Call("parse", NoPath, NoName, "none", TRUE))
  /\ pc' = "cfg_parsed"
  /\ UNCHANGED <<configFile, config, updated, outsideConfig>>

\* mergeConfigWithDefaults(parsed, isMigration): the input is cloned first
CfgMerge(isMigration) ==
  /\ pc = "cfg_parsed"
  /\ LET result == mergeConfigWithDefaults(parsed, isMigration)
     IN /\ config' = result.config
        /\ updated' = result.updated
  /\ calls' = Append(calls,
        Call("merge", NoPath, NoName,
             IF isMigration THEN "migration" ELSE "fresh", TRUE))
  /\ pc' = "cfg_merged"
  /\ UNCHANGED <<configFile, parsed, outsideConfig>>

\* loadConfig: parse, merge as a migration, write back when a key was added
CfgLoad(writes) ==
  /\ pc \in {"cfg_file", "cfg_loaded"}
  /\ LET input == parse(configFile)
         result == mergeConfigWithDefaults(input, TRUE)
         saved == result.updated /\ (writes \/ ~HasNull(result.config))
         threw == result.updated /\ ~saved
     IN /\ parsed' = input
        /\ config' = result.config
        /\ updated' = result.updated
        /\ configFile' = IF saved THEN stringify(WithoutNull(result.config))
                         ELSE configFile
        /\ calls' = Append(calls,
              Call("load", NoPath, NoName,
                   IF saved THEN "saved" ELSE "kept", ~threw))
        /\ pc' = IF threw THEN "cfg_failed"
                 ELSE IF pc = "cfg_file" THEN "cfg_loaded" ELSE "cfg_reloaded"
  /\ UNCHANGED outsideConfig

ConfigNext ==
  \/ CfgParse
  \/ \E isMigration \in BOOLEAN : CfgMerge(isMigration)
  \/ \E writes \in BOOLEAN : CfgLoad(writes)

ConfigSpec == ConfigInit /\ [][ConfigNext]_vars

\* -------------------------------------------------------- grow on its own
\* a step of a grow invocation after its start: each awaited call returns
GrowProgress ==
  \/ \E ok \in BOOLEAN : GrowFetch(ok)
  \/ GrowClassify
  \/ \E listOk \in BOOLEAN : GrowCheckConflict(listOk)
  \/ \E answer \in Answers : GrowConfirm(answer)
  \/ \E ok \in BOOLEAN : GrowPrune(ok)
  \/ \E gitOk \in BOOLEAN : GrowCreate(gitOk)
  \/ \E cmds \in SetupLists : \E editor \in EditorResults : GrowEditor(cmds, editor)
  \/ \E ok \in BOOLEAN : GrowSetup(ok)
  \/ GrowFinish

GrowNext ==
  \/ \E p \in Paths : ExternalDelete(p)
  \/ \E p \in Paths : \E kind \in {"file"} : ExternalCreate(p, kind)
  \/ \E b \in Names \cup {NoName} : \E haveConfig \in BOOLEAN : GrowStart(b, haveConfig)
  \/ GrowProgress
  \/ Return

\* every git subprocess, prompt, editor launch and setup command returns
GrowSpec == Init /\ [][GrowNext]_vars /\ WF_vars(GrowProgress)

\* ------------------------------------------- grow next to another process
\* while grow is between its own branch queries and createWorktree (it may be
\* waiting at the stale prompt), another process creates the local branch
ExternalBranch(b) ==
  /\ pc \in {"g_conflict", "g_confirm", "g_prune", "g_create"}
  /\ b \notin localRefs
  /\ localRefs' = localRefs \cup {b}
  /\ UNCHANGED <<worktrees, disk, status, remoteRefs, upstream, pc, locals,
                 calls, outcome, exitCode, startWorktrees>>

RaceNext ==
  \/ GrowNext
  \/ \E b \in ValidNames : ExternalBranch(b)

RaceSpec == Init /\ [][RaceNext]_vars

\* ------------------------------------------------------ session registry
\* the worktrees in which sessions are started
SessionPaths == {join(WorktreeBase, A), join(WorktreeBase, A_B)}

\* a registry object: its members <<key, entry>> in property order
HasKey(reg, key) == \E n \in 1..Len(reg) : reg[n][1] = key
Lookup(reg, key) == reg[CHOOSE n \in 1..Len(reg) : reg[n][1] = key][2]

\* registry[key] = entry: an existing property keeps its place
SetProperty(reg, key, entry) ==
  IF HasKey(reg, key)
  THEN [n \in 1..Len(reg) |-> IF reg[n][1] = key THEN <<key, entry>> ELSE reg[n]]
  ELSE Append(reg, <<key, entry>>)

\* JSON.parse(content): of a repeated key the last value, at the first place
RECURSIVE JSON_parse(_)
JSON_parse(text) ==
  IF text = <<>> THEN <<>>
  ELSE LET front == JSON_parse(SubSeq(text, 1, Len(text) - 1))
           last == text[Len(text)]
       IN SetProperty(front, last[1], last[2])

loadRegistry == IF ~sessionsFile.exists THEN <<>> ELSE JSON_parse(sessionsFile.text)
\* the file gets JSON.stringify(registry, null, 2): the members in property
\* order
saveRegistry(reg) == [exists |-> TRUE, text |-> reg]

outsideSessions ==
  <<world, pc, branchName, worktreePath, growLocals, isClean, forceDelete,
    bonsaiWorktrees, running, display, configLocals, selected, idx, results,
    summary, calls, outcome, exitCode, startWorktrees>>

\* trackSession(entry) and removeSession(worktreePath) up to the end of
\* `await loadRegistry()`
SessionLoad(i, op) ==
  /\ pc = "idle"
  /\ sessionPc[i] = "idle"
  /\ sessionOp' = [sessionOp EXCEPT ![i] = op]
  /\ registry' = [registry EXCEPT ![i] = loadRegistry]
  /\ sessionPc' = [sessionPc EXCEPT ![i] = "loaded"]
  /\ UNCHANGED <<sessionsFile, outsideSessions>>

\* the rest of trackSession and removeSession: the loaded object is changed
\* and written
SessionSave(i) ==
  /\ sessionPc[i] = "loaded"
  /\ LET own == sessionOp[i].worktreePath
         changed ==
           IF sessionOp[i].kind = "track"
           THEN SetProperty(registry[i], own,
                            [worktreePath |-> own, prompt |-> sessionOp[i].prompt])
           ELSE SelectSeq(registry[i], LAMBDA member : member[1] # own)
     IN /\ registry' = [registry EXCEPT ![i] = changed]
        /\ sessionsFile' = saveRegistry(changed)
  /\ sessionPc' = [sessionPc EXCEPT ![i] = "saved"]
  /\ UNCHANGED <<sessionOp, outsideSessions>>

\* the invocation goes on after the registry call (send.ts:264)
SessionReturn(i) ==
  /\ sessionPc[i] = "saved"
  /\ sessionPc' = [sessionPc EXCEPT ![i] = "idle"]
  /\ sessionOp' = [sessionOp EXCEPT ![i] = NoOp]
  /\ registry' = [registry EXCEPT ![i] = <<>>]
  /\ UNCHANGED <<sessionsFile, outsideSessions>>

SessionNext ==
  \/ \E i \in Invocations :
       \E op \in [kind : {"track"}, worktreePath : SessionPaths,
                  prompt : {"fix", "test"}]
                   \cup [kind : {"remove"}, worktreePath : SessionPaths,
                         prompt : {""}] :
         SessionLoad(i, op)
  \/ \E i \in Invocations : SessionSave(i)
  \/ \E i \in Invocations : SessionReturn(i)

SessionSpec == Init /\ [][SessionNext]_vars

\* ================================================================= claims
Last(s) == s[Len(s)]
LiveRecordFor(b) ==
  \E i \in 1..Len(worktrees) :
    worktrees[i].branch = b /\ directoryExists(worktrees[i].path)
StaleRecordFor(b) ==
  \E i \in 1..Len(worktrees) :
    worktrees[i].branch = b /\ ~directoryExists(worktrees[i].path)
HasRecord(p, b) ==
  \E i \in 1..Len(worktrees) : worktrees[i] = [path |-> p, branch |-> b]
Indices(log, Test(_)) == {i \in 1..Len(log) : Test(log[i])}
IsMutation(c) == c.op \in MutatingOps

\* C1: when grow's conflict check reads a worktree list that holds a record
\* for the branch whose path is a directory on disk, grow ends with "already
\* checked out at <that path>" and has issued neither `worktree add` nor
\* `worktree prune`.
C1_ConflictDetection ==
  [][(/\ pc = "g_conflict"
      /\ pc' # "g_conflict"
      /\ Last(calls').ok
      /\ LiveRecordFor(branchName))
     => /\ pc' = "done"
        /\ outcome' = "BranchCheckedOutElsewhere"
        /\ HasRecord(existingWorktree'.path, branchName)
        /\ directoryExists(existingWorktree'.path)
        /\ Last(calls').path = existingWorktree'.path
        /\ Mutations(calls') = <<>>]_vars

C1_Witness ==
  /\ pc = "done"
  /\ outcome = "BranchCheckedOutElsewhere"
  /\ Last(calls).op = "find"
  /\ Last(calls).ok
  /\ LiveRecordFor(branchName)
  /\ existingWorktree.path = RepoPath

\* C2: when the list holds a record for the branch whose path is gone, grow
\* prompts before any worktree prune/add/remove; a "no" or a cancel ends the
\* invocation as Cancelled with no mutating call issued; any mutating call
\* of such an invocation comes after a "yes".
C2_StaleGating ==
  /\ [][(/\ pc = "g_conflict"
         /\ pc' # "g_conflict"
         /\ Last(calls').ok
         /\ StaleRecordFor(branchName))
        => /\ pc' = "g_confirm"
           /\ Mutations(calls') = <<>>]_vars
  /\ [][(/\ pc = "g_confirm"
         /\ pc' # "g_confirm"
         /\ Last(calls').arg # "yes")
        => /\ pc' = "done"
           /\ outcome' = "Cancelled"
           /\ Mutations(calls') = <<>>
           /\ worktrees' = worktrees
           /\ disk' = disk]_vars
  /\ []((\E i \in 1..Len(calls) : calls[i].op = "find" /\ calls[i].arg = "stale")
        => \A j \in Indices(calls, IsMutation) :
             \E i \in 1..(j - 1) :
               calls[i].op = "confirm" /\ calls[i].arg = "yes")

C2_Witness ==
  /\ pc = "done"
  /\ outcome = "Cancelled"
  /\ \E i \in 1..Len(calls) : calls[i].op = "find" /\ calls[i].arg = "stale"
  /\ Last(calls).op = "confirm"
  /\ Last(calls).arg = "no"
  /\ StaleRecordFor(branchName)

IsForceRemove(c) == c.op = "remove" /\ c.arg = "--force"
IsRemove(c) == c.op = "remove"
IsSelect(c) == c.op = "multiselect"
\* index of the multi-select prompt in the log (0 when there was none)
SelectAt(log) ==
  IF Indices(log, IsSelect) = {} THEN 0
  ELSE CHOOSE i \in Indices(log, IsSelect) : TRUE

\* C3: `worktree remove --force <path>` is issued only after a status call of
\* <path> in this invocation returned changes and the user then said yes to
\* the force prompt for <path>; after a "no" or a cancel no remove of any kind
\* is issued for that path.
C3_DirtyGating ==
  /\ \A j \in Indices(calls, IsForceRemove) :
       \E i \in (SelectAt(calls) + 1)..(j - 1) : \E k \in (i + 1)..(j - 1) :
         /\ calls[i].op = "status"
         /\ calls[i].path = calls[j].path
         /\ calls[i].result = "dirty"
         /\ calls[k].op = "confirm"
         /\ calls[k].path = calls[j].path
         /\ calls[k].arg = "yes"
  /\ \A k \in 1..Len(calls) :
       (calls[k].op = "confirm" /\ calls[k].arg # "yes")
         => \A j \in Indices(calls, IsRemove) : calls[j].path # calls[k].path

C3_Witness ==
  /\ pc = "done"
  /\ outcome = "BatchDone"
  /\ Len(results) = 2
  /\ results[1].cancelled
  /\ results[2].success
  /\ results[2].forceDelete
  /\ IsForceRemove(Last(calls))

\* C4: when the status check of the target returns nothing, prune goes
\* straight to `git worktree remove <path>` without --force: the remove is
\* the call that follows the status check, with no prompt in between.
C4_CleanPath ==
  /\ [][(/\ pc \in {"p_check", "m_check"}
         /\ pc' # pc
         /\ Last(calls').arg = "getWorktreeStatus"
         /\ Last(calls').ok
         /\ calls'[Len(calls') - 1].result = "clean")
        => /\ pc' \in {"p_remove", "m_remove"}
           /\ isClean'
           /\ ~forceDelete']_vars
  /\ [][(/\ pc \in {"p_remove", "m_remove"}
         /\ isClean
         /\ pc' # pc)
        => /\ Last(calls).op = "status"
           /\ Last(calls).path = worktreePath
           /\ Len(calls') = Len(calls) + 1
           /\ Last(calls').op = "remove"
           /\ Last(calls').arg = "plain"
           /\ Last(calls').path = worktreePath]_vars

C4_Witness ==
  /\ pc = "done"
  /\ outcome = "Removed"
  /\ isClean
  /\ Last(calls).op = "remove"
  /\ Last(calls).arg = "plain"
  /\ Last(calls).ok
  /\ \A i \in 1..Len(calls) : calls[i].op # "confirm"

InBatch == Len(selected) > 0

\* C5: in a batch every selected target gets its status checked and, when
\* clean or confirmed, its removal attempted, and gets one recorded outcome,
\* whatever happened to the other targets; the batch always ends through its
\* summary, never through a target's error.
C5_MultiIsolation ==
  /\ (InBatch /\ pc \in {"m_check", "m_confirm", "m_remove"})
       => Len(results) = idx - 1 /\ idx <= Len(selected)
  /\ (InBatch /\ pc = "done") => outcome = "BatchDone"
  /\ (InBatch /\ pc \in {"m_summary", "done"})
       => /\ Len(results) = Len(selected)
          /\ \A k \in 1..Len(selected) :
               /\ results[k].worktreeName = selected[k].name
               /\ \E i \in (SelectAt(calls) + 1)..Len(calls) :
                    calls[i].op = "status" /\ calls[i].path = selected[k]
               /\ (~results[k].cancelled /\ results[k].error # "status")
                    => \E j \in Indices(calls, IsRemove) :
                         calls[j].path = selected[k]
               /\ results[k].cancelled
                    => \E j \in (SelectAt(calls) + 1)..Len(calls) :
                         /\ calls[j].op = "confirm"
                         /\ calls[j].path = selected[k]
                         /\ calls[j].arg # "yes"

C5_Witness ==
  /\ pc = "done"
  /\ outcome = "BatchDone"
  /\ Len(selected) = 2
  /\ ~results[1].success
  /\ results[1].error = "remove"
  /\ results[2].success

\* C6: after a batch each target has one outcome and is counted in exactly
\* one of succeeded, failed, cancelled: the printed "failed" count leaves
\* cancelled targets out, and succeeded + failed + cancelled = N.
C6_SummaryAccounting ==
  (pc = "done" /\ outcome = "BatchDone")
    => LET cancelled == Count(results, LAMBDA r : r.cancelled)
       IN /\ Len(results) = Len(selected)
          /\ summary.successful = Count(results, LAMBDA r : r.success)
          /\ summary.failed =
               Count(results, LAMBDA r : ~r.success /\ ~r.cancelled)
          /\ summary.successful + summary.failed + cancelled = Len(selected)

IsAdd(c) == c.op = "add"
IsPrune(c) == c.op = "prune"

\* C7: createWorktree issues exactly one `worktree add`, whose shape follows
\* from (local ref resolves, origin/<branch> resolves): remote only -> track
\* origin, local present -> attach, neither (start point given) -> new branch
\* from the start point.
C7_CreationMode ==
  [][(pc = "g_create" /\ pc' # pc)
     => LET loc == branchName \in localRefs
            rem == branchName \in remoteRefs
            shape == IF ~loc /\ rem THEN "track"
                     ELSE IF loc THEN "attach"
                     ELSE "new"
        IN /\ Len(calls') = Len(calls) + 1
           /\ Cardinality(Indices(calls', IsAdd)) = 1
           /\ Last(calls').op = "add"
           /\ Last(calls').arg = shape
           /\ Last(calls').path = worktreePath
           /\ Last(calls').branch = branchName]_vars

C7_Witness ==
  /\ pc = "g_post"
  /\ Last(calls).op = "add"
  /\ Last(calls).arg = "track"
  /\ Last(calls).ok
  /\ branchName \in localRefs
  /\ HasRecord(worktreePath, branchName)

AtMostOneLive ==
  \A i, j \in 1..Len(worktrees) :
    (/\ worktrees[i].branch = worktrees[j].branch
     /\ directoryExists(worktrees[i].path)
     /\ directoryExists(worktrees[j].path))
      => i = j

\* C8: every branch stays attached to at most one on-disk worktree, and grow
\* never issues `git worktree add` for a branch that is attached to an
\* on-disk worktree: it aborts before the add instead of leaving the refusal
\* to git.
C8_SingleAttachment ==
  /\ []AtMostOneLive
  /\ [][(/\ pc = "g_create"
         /\ Len(calls') = Len(calls) + 1
         /\ Last(calls').op = "add")
        => ~LiveRecordFor(branchName)]_vars

\* C9: each `worktree add` comes after the target-directory check and a
\* completed findWorktreeForBranch of its branch; each `worktree prune` after
\* a findWorktreeForBranch result whose path is gone; each `worktree remove`
\* after a completed status check of the same path.
C9_NoSpeculativeMutation ==
  /\ \A j \in Indices(calls, IsAdd) :
       /\ \E i \in 1..(j - 1) :
            /\ calls[i].op = "exists"
            /\ calls[i].arg = "none"
            /\ calls[i].path = calls[j].path
            /\ ~calls[i].ok
       /\ \E i \in 1..(j - 1) :
            calls[i].op = "find" /\ calls[i].branch = calls[j].branch
  /\ \A j \in Indices(calls, IsPrune) :
       \E i \in 1..(j - 1) :
         /\ calls[i].op = "find"
         /\ calls[i].arg = "stale"
         /\ calls[i].path # NoPath
  /\ \A j \in Indices(calls, IsRemove) :
       \E i \in (SelectAt(calls) + 1)..(j - 2) :
         /\ calls[i].op = "status"
         /\ calls[i].arg = "isWorktreeClean"
         /\ calls[i].ok
         /\ calls[i].path = calls[j].path
         /\ calls[i + 1].op = "status"
         /\ calls[i + 1].arg = "getWorktreeStatus"
         /\ calls[i + 1].ok
         /\ calls[i + 1].path = calls[j].path

C9_Witness ==
  /\ pc = "g_post"
  /\ Indices(calls, IsPrune) # {}
  /\ Last(calls).op = "add"
  /\ Last(calls).ok

ConfirmPoints == {"g_confirm", "p_confirm", "m_confirm"}

\* C10 as stated: at every confirmation prompt of grow, prune <branch> and
\* the batch, no worktree add/remove/prune has been issued yet in this
\* invocation and the worktrees are as they were when the command started.
C10_NoMutationAtPrompt ==
  pc \in ConfirmPoints
    => /\ Mutations(calls) = <<>>
       /\ worktrees = startWorktrees.worktrees
       /\ disk = startWorktrees.disk

\* C10 amended: at a prompt of grow or of prune <branch> nothing has been
\* mutated in this invocation; at the force prompt of a batch target the only
\* mutating calls issued so far are removes of earlier targets, none of them
\* of the target asked about; a "no" or a cancel issues no mutating call and
\* leaves the worktrees as they were at the prompt.
C10_PromptBeforeOwnMutation ==
  /\ [](pc \in {"g_confirm", "p_confirm"}
          => /\ Mutations(calls) = <<>>
             /\ worktrees = startWorktrees.worktrees
             /\ disk = startWorktrees.disk)
  /\ [](pc = "m_confirm"
          => /\ worktreePath = selected[idx]
             /\ HasPath(worktreePath)
             /\ disk[worktreePath] = startWorktrees.disk[worktreePath]
             /\ \A j \in Indices(calls, IsMutation) :
                  /\ calls[j].op = "remove"
                  /\ calls[j].path # worktreePath
                  /\ \E k \in 1..(idx - 1) : selected[k] = calls[j].path)
  /\ [][(/\ pc \in ConfirmPoints
         /\ pc' # pc
         /\ Last(calls').arg # "yes")
        => /\ worktrees' = worktrees
           /\ disk' = disk
           /\ Mutations(calls') = Mutations(calls)
           /\ pc' \in {"done", "m_check", "m_summary"}]_vars

C10_Witness ==
  /\ pc = "m_confirm"
  /\ idx = 2
  /\ Mutations(calls) # <<>>
  /\ Last(Mutations(calls)).ok
  /\ worktrees # startWorktrees.worktrees

\* --------------------------------------------------------------------- C11
\* what the invocation was asked to do has been done: the worktree was
\* created, the worktree was removed, or every target of the batch was
AllSucceeded(rs) == \A i \in 1..Len(rs) : rs[i].success
OperationSucceeded ==
  \/ outcome \in {"Created", "Removed", "NoWorktrees"}
  \/ outcome = "BatchDone" /\ AllSucceeded(results)

\* C11: every invocation of grow or prune ends with exit code 0 exactly
\* when the operation succeeded, and with 1 on every abort, cancellation,
\* declined prompt and error, a batch with a failed target included.
C11_ExitCodes ==
  pc = "done" =>
    /\ exitCode \in {0, 1}
    /\ exitCode = 0 <=> OperationSucceeded

\* --------------------------------------------------------------------- C12
\* the rules of the validator, position by position
WellFormed(s) ==
  /\ Len(s) > 0
  /\ \E i \in 1..Len(s) : s[i] # " "
  /\ s[1] # "-"
  /\ \A i \in 1..Len(s) : s[i] \in AllowedChars
  /\ \A i \in 1..(Len(s) - 1) : ~(s[i] = "." /\ s[i + 1] = ".")
  /\ ~(/\ Len(s) >= 5
       /\ s[Len(s) - 4] = "." /\ s[Len(s) - 3] = "l" /\ s[Len(s) - 2] = "o"
       /\ s[Len(s) - 1] = "c" /\ s[Len(s)] = "k")

IsValidate(c) == c.op = "validate"
FooWithDash == <<"-", "f", "o", "o">>
ADotDotB == <<"a", ".", ".", "b">>
XLock == <<"x", ".", "l", "o", "c", "k">>
FeatureAuth == <<"f", "e", "a", "t", "u", "r", "e", "/", "a", "u", "t", "h">>

\* C12: validateBranchName accepts a string exactly when it is non-empty,
\* not whitespace only, does not start with "-", holds only characters of
\* [A-Za-z0-9._/-], holds no ".." and does not end with ".lock"; "-foo",
\* "a..b" and "x.lock" are rejected, "feature/auth" is accepted.
C12_Acceptance ==
  \A i \in 1..Len(calls) : IsValidate(calls[i]) =>
    /\ calls[i].ok <=> WellFormed(calls[i].branch)
    /\ calls[i].branch \in {FooWithDash, ADotDotB, XLock} => ~calls[i].ok
    /\ calls[i].branch = FeatureAuth => calls[i].ok

C12_Witness ==
  /\ pc = "fn_validated"
  /\ branchName = FeatureAuth
  /\ calls[Len(calls)].op = "validate" /\ calls[Len(calls)].ok

\* --------------------------------------------------------------------- C13
\* which rules a string breaks, in the order the validator states them
Reasons == <<"empty", "leading-dash", "invalid-chars", "double-dot", "dot-lock">>
Breaks(s) ==
  <<Len(s) = 0 \/ \A i \in 1..Len(s) : s[i] = " ",
    Len(s) > 0 /\ s[1] = "-",
    \E i \in 1..Len(s) : s[i] \notin AllowedChars,
    \E i \in 1..(Len(s) - 1) : s[i] = "." /\ s[i + 1] = ".",
    Len(s) >= 5 /\ SubSeq(s, Len(s) - 4, Len(s)) = <<".", "l", "o", "c", "k">> >>
Broken(s) == {k \in 1..5 : Breaks(s)[k]}
FirstBroken(s) == CHOOSE k \in Broken(s) : \A j \in Broken(s) : k <= j

\* C13: the validator answers every string, with "valid" or with exactly
\* one reason, and the reason is the first rule the string breaks in the
\* order empty/whitespace, leading "-", invalid character, "..", ".lock".
C13_ReasonPrecedence ==
  \A i \in 1..Len(calls) : IsValidate(calls[i]) =>
    LET s == calls[i].branch
    IN IF Broken(s) = {}
         THEN calls[i].ok /\ calls[i].arg = "none"
         ELSE ~calls[i].ok /\ calls[i].arg = Reasons[FirstBroken(s)]

C13_Witness ==
  /\ pc = "fn_validated"
  /\ Cardinality(Broken(branchName)) >= 2
  /\ ~calls[Len(calls)].ok
  /\ calls[Len(calls)].arg = Reasons[FirstBroken(branchName)]
  /\ calls[Len(calls)].arg = "leading-dash"

\* --------------------------------------------------------------------- C14
\* the call is handed the branch name or a path made from it
TakesName(c) == c.branch # NoName \/ c.path # NoPath

\* C14: in grow and in single-target prune the name passes
\* validateBranchName before any git subprocess or filesystem check uses
\* it; when validation fails the command ends as InvalidBranchName, having
\* issued no call that takes the name and no mutating call.
C14_ValidationFirst ==
  /\ outcome = "InvalidBranchName" =>
        /\ exitCode = 1
        /\ ~WellFormed(branchName)
        /\ \A i \in 1..Len(calls) : ~TakesName(calls[i]) /\ ~IsMutation(calls[i])
        /\ worktrees = startWorktrees.worktrees /\ disk = startWorktrees.disk
  /\ (branchName # NoName /\ ~WellFormed(branchName)) =>
        /\ \A i \in 1..Len(calls) : ~TakesName(calls[i]) /\ ~IsMutation(calls[i])
        /\ pc = "done" /\ outcome \in {"InvalidBranchName", "NoConfig"}

C14_Witness ==
  /\ pc = "done"
  /\ outcome = "InvalidBranchName"
  /\ branchName = DashA
  /\ Len(calls) = 1 /\ calls[1].op = "config"

\* --------------------------------------------------------------------- C15
IsSanitize(c) == c.op = "sanitize"
HasSlash(s) == \E i \in 1..Len(s) : s[i] = "/"
SlashCount(s) == Cardinality({i \in 1..Len(s) : s[i] = "/"})

\* C15: for every name the validator accepts, sanitizing the sanitized
\* name gives the sanitized name again, and the sanitized name holds no
\* slash.
C15_SanitizeIdempotent ==
  \A i \in 1..Len(calls) : IsSanitize(calls[i]) =>
    LET folderName == calls[i].branch
    IN /\ sanitizeBranchName(folderName) = folderName
       /\ ~HasSlash(folderName)
       /\ Len(folderName) = Len(branchName)

C15_Witness ==
  /\ pc = "fn_sanitized"
  /\ SlashCount(branchName) >= 2
  /\ IsSanitize(calls[Len(calls)])
  /\ ~HasSlash(calls[Len(calls)].branch)

\* --------------------------------------------------------------------- C16
\* grow's check of the target folder
IsFolderCheck(c) == c.op = "exists" /\ c.arg = "none"
\* a directory was at the path when the command began (the world does not
\* change while a command runs)
WasDirectory(p) == startWorktrees.disk[p] \in {"dir", "wtdir"}

\* C16: whenever a directory is at <base>/<sanitized branch> when grow
\* checks it, grow ends as WorktreeAlreadyExists before the fetch, any
\* branch query and any mutating git call; `git worktree add` is issued
\* only for a target that was seen not to exist.
C16_TargetFree ==
  /\ \A i \in 1..Len(calls) :
        (IsFolderCheck(calls[i]) /\ WasDirectory(calls[i].path)) =>
          /\ pc = "done"
          /\ outcome = "WorktreeAlreadyExists"
          /\ Len(calls) = i
  /\ \A i \in 1..Len(calls) :
        IsAdd(calls[i]) => startWorktrees.disk[calls[i].path] = "none"

\* --------------------------------------------------------------------- C17
IsFetch(c) == c.op = "fetch"
FailedFetches == Indices(calls, LAMBDA c : IsFetch(c) /\ ~c.ok)

\* C17: a failing fetch never ends grow: grow goes on to the
\* classification, the conflict check and the creation as after a
\* successful fetch, with the refs that are present.
C17_FetchBestEffort ==
  /\ [][(pc = "g_fetch" /\ pc' # pc) =>
          /\ pc' = "g_classify"
          /\ exitCode' = -1 /\ outcome' = "none"
          /\ IsFetch(Last(calls'))
          /\ ~Last(calls').ok =>
                /\ remoteRefs' = remoteRefs /\ localRefs' = localRefs
                /\ worktrees' = worktrees /\ disk' = disk]_vars
  /\ [][(pc = "g_classify" /\ pc' # pc) =>
          /\ pc' = "g_conflict"
          /\ exists' = (branchName \in localRefs \/ branchName \in remoteRefs)
          /\ isRemote' = (branchName \notin localRefs /\ branchName \in remoteRefs)
          /\ UNCHANGED <<localRefs, remoteRefs>>]_vars
  /\ []((pc = "done" /\ calls # <<>>) => ~IsFetch(Last(calls)))

C17_Witness ==
  /\ pc = "g_post"
  /\ FailedFetches # {}
  /\ IsAdd(Last(calls)) /\ Last(calls).ok

\* --------------------------------------------------------------------- C18
IsOptions(c) == c.op = "options"
Unresolved(b) == b \notin localRefs /\ b \notin remoteRefs

\* C18: when the branch resolves neither locally nor as origin/<branch>
\* and no start point is supplied, creation ends with the missing start
\* point error and no `git worktree add` is issued.
C18_MissingStartPoint ==
  [][(/\ pc = "fn_create" /\ pc' # pc
      /\ IsOptions(Last(calls)) /\ ~Last(calls).ok
      /\ Unresolved(branchName)) =>
        /\ pc' = "done"
        /\ outcome' = "MissingStartPoint"
        /\ exitCode' = 1
        /\ calls' = calls
        /\ UNCHANGED <<worktrees, disk, localRefs, remoteRefs>>]_vars

C18_Witness ==
  /\ pc = "done"
  /\ outcome = "MissingStartPoint"
  /\ IsOptions(Last(calls)) /\ ~Last(calls).ok
  /\ Unresolved(branchName)
  /\ Indices(calls, IsAdd) = {}

\* --------------------------------------------------------------------- C19
IsEditor(c) == c.op = "editor"
IsSetup(c) == c.op = "setup"
IsPostCreate(c) == IsEditor(c) \/ IsSetup(c)
\* the invocation is a grow that got as far as its folder check
GrowRuns == Len(calls) >= 2 /\ IsFolderCheck(calls[2])
GrowAborts ==
  {"MissingBranchName", "InvalidBranchName", "NoConfig",
   "WorktreeAlreadyExists", "BranchCheckedOutElsewhere", "Cancelled",
   "PruneFailed", "MissingStartPoint", "WorktreeCreateFailed"}

\* C19: the editor launcher and every setup command are invoked only after
\* `git worktree add` exited 0; on every abort path neither runs, and a
\* failed add is followed by no rollback and no further git call.
C19_PostCreateAfterAdd ==
  /\ GrowRuns =>
        \A i \in Indices(calls, IsPostCreate) :
          \E j \in 1..(i - 1) :
            /\ IsAdd(calls[j]) /\ calls[j].ok
            /\ calls[j].path = calls[i].path
  /\ ~GrowRuns => Indices(calls, IsEditor) = {}
  /\ outcome \in GrowAborts => Indices(calls, IsPostCreate) = {}
  /\ \A j \in Indices(calls, IsAdd) :
        ~calls[j].ok =>
          /\ j = Len(calls)
          /\ pc = "done" /\ outcome = "WorktreeCreateFailed" /\ exitCode = 1

C19_Witness ==
  /\ pc = "done"
  /\ outcome = "Created"
  /\ Indices(calls, IsEditor) # {}
  /\ Cardinality(Indices(calls, IsSetup)) = MaxSetup

\* the abort after a non-zero `git worktree add` is reachable
C19_FailedAddReached ==
  /\ pc = "done"
  /\ outcome = "WorktreeCreateFailed"
  /\ IsAdd(Last(calls)) /\ ~Last(calls).ok

\* --------------------------------------------------------------------- C20
EditorThrew(c) == IsEditor(c) /\ c.arg = "throw"
\* the setup commands run so far are the configured ones, in order, all of
\* them unless the last one run failed
SetupRun == SelectSeq(calls, IsSetup)
SetupRunInOrder ==
  /\ Len(SetupRun) <= Len(setupCommands)
  /\ \A k \in 1..Len(SetupRun) : SetupRun[k].arg = setupCommands[k]
  /\ \A k \in 1..(Len(SetupRun) - 1) : SetupRun[k].ok
SetupRunToEnd ==
  \/ Len(SetupRun) = Len(setupCommands)
  \/ Len(SetupRun) > 0 /\ ~Last(SetupRun).ok

\* C20: if launching the editor fails after the worktree was created, grow
\* reports a warning, still runs the setup commands and finishes as a
\* success; the created worktree is not removed.
C20_EditorFailureIsWarning ==
  /\ [][(pc = "g_post" /\ pc' # pc) =>
          /\ IsEditor(Last(calls'))
          /\ Last(calls').result = "warning" <=> EditorThrew(Last(calls'))
          /\ pc' = IF Len(setupCommands') > 0 THEN "g_setup" ELSE "g_finish"
          /\ exitCode' = -1
          /\ UNCHANGED <<worktrees, disk>>]_vars
  /\ []((Indices(calls, EditorThrew) # {}) =>
          /\ SetupRunInOrder
          /\ Indices(calls, IsRemove) = {}
          /\ HasRecord(worktreePath, branchName)
          /\ disk[worktreePath] = "wtdir"
          /\ pc = "done" =>
                /\ outcome = "Created" /\ exitCode = 0
                /\ SetupRunToEnd)

C20_Witness ==
  /\ pc = "done"
  /\ outcome = "Created" /\ exitCode = 0
  /\ Indices(calls, EditorThrew) # {}
  /\ Len(SetupRun) = MaxSetup
  /\ disk[worktreePath] = "wtdir"

\* --------------------------------------------------------------------- C21
FailedSetups == Indices(SetupRun, LAMBDA c : ~c.ok)

\* C21: the setup commands c1..cn are run one at a time in list order,
\* c(i+1) starts only after ci exited with code 0, and once some ci exits
\* non-zero no later command is started, in grow and in `bonsai setup`.
C21_StopsAtFirstFailure ==
  /\ Len(SetupRun) <= Len(setupCommands)
  /\ \A k \in 1..Len(SetupRun) :
        /\ SetupRun[k].arg = setupCommands[k]
        /\ k < Len(SetupRun) => SetupRun[k].ok
  /\ \A k \in FailedSetups : k = Len(SetupRun) /\ setupFailed
  /\ pc \in {"g_setup", "s_run"} =>
        /\ FailedSetups = {}
        /\ setupIndex = Len(SetupRun) + 1
  /\ (pc = "done" /\ outcome \in {"Created", "SetupCompleted", "SetupFailed"}) =>
        \/ FailedSetups # {}
        \/ Len(SetupRun) = Len(setupCommands)

C21_Witness ==
  /\ pc = "done"
  /\ outcome = "Created"
  /\ FailedSetups = {1}
  /\ Len(setupCommands) = MaxSetup
  /\ Len(SetupRun) = 1

C21_StandaloneReached ==
  /\ pc = "done"
  /\ outcome = "SetupFailed"
  /\ FailedSetups = {1}
  /\ Len(setupCommands) = MaxSetup

\* --------------------------------------------------------------------- C22
IsList(c) == c.op = "list"
IsStatus(c) == c.op = "status"
\* a single-target prune whose `git worktree list` returned
SinglePruneListed ==
  /\ branchName # NoName
  /\ Len(calls) >= 2 /\ IsList(calls[2]) /\ calls[2].ok
RecordedAtStart(p) ==
  \E i \in 1..Len(startWorktrees.worktrees) : startWorktrees.worktrees[i].path = p
MarkerAtStart(p) == startWorktrees.disk[p] = "wtdir"

\* C22: in single-target prune, if <base>/<sanitized branch> is not among
\* git's worktree records and no `.git` marker file is at that path, prune
\* ends as WorktreeNotFound before any status check and without issuing
\* `git worktree remove`.
C22_TargetResolution ==
  (/\ SinglePruneListed
   /\ ~RecordedAtStart(worktreePath)
   /\ ~MarkerAtStart(worktreePath)) =>
     /\ worktreePath = join(WorktreeBase, sanitizeBranchName(branchName))
     /\ pc = "done" /\ outcome = "WorktreeNotFound" /\ exitCode = 1
     /\ Indices(calls, IsStatus) = {}
     /\ Indices(calls, IsRemove) = {}
     /\ worktrees = startWorktrees.worktrees /\ disk = startWorktrees.disk

C22_Witness ==
  /\ SinglePruneListed
  /\ ~RecordedAtStart(worktreePath)
  /\ startWorktrees.disk[worktreePath] = "file"
  /\ outcome = "WorktreeNotFound"
  /\ Last(calls).op = "exists" /\ ~Last(calls).ok

\* --------------------------------------------------------------------- C23
\* the invocation is a prune (either form) that got past its configuration
PruneRuns == Len(calls) >= 2 /\ IsList(calls[2])

\* C23: across every prune execution, single-target or multi-select, clean
\* or forced, succeeded or failed, the local and remote branch refs are
\* unchanged; the only mutating git command prune issues is
\* `git worktree remove`.
C23_RefsUntouched ==
  /\ [][PruneRuns' => UNCHANGED <<localRefs, remoteRefs>>]_vars
  /\ [](PruneRuns =>
          \A i \in Indices(calls, IsMutation) : IsRemove(calls[i]))

C23_Witness ==
  /\ PruneRuns
  /\ pc = "done"
  /\ outcome = "Removed"
  /\ IsForceRemove(Last(calls)) /\ Last(calls).ok
  /\ branchName \in localRefs
  /\ ~HasBranch(branchName)

\* --------------------------------------------------------------------- C25
\* C25: during any single invocation of grow or prune, the candidate
\* enumeration of multi-select prune included, at most one git subprocess
\* is in flight at any time.
C25_OneGitInFlight == Cardinality(running) <= 1

\* --------------------------------------------------------------------- C24
Untouched ==
  /\ worktrees = startWorktrees.worktrees
  /\ disk = startWorktrees.disk

\* C24: from the start of `prune` without a branch argument up to the
\* moment the user submits a non-empty selection no mutating git call is
\* issued; if the user cancels the selection or selects nothing, the
\* command ends with no worktree removed.
C24_EnumerationReadOnly ==
  /\ pc \in {"m_hints", "m_select"} =>
        /\ Indices(calls, IsMutation) = {}
        /\ Untouched
  /\ outcome \in {"NothingSelected", "NoWorktrees"} =>
        /\ Indices(calls, IsMutation) = {}
        /\ Untouched
  /\ \A i \in Indices(calls, IsMutation) :
        PruneRuns /\ branchName = NoName =>
          \E j \in 1..(i - 1) : IsSelect(calls[j]) /\ calls[j].ok

C24_Witness ==
  /\ pc = "done"
  /\ outcome = "NothingSelected"
  /\ Len(bonsaiWorktrees) >= 2
  /\ \E i \in 1..Len(worktrees) : ~directoryExists(worktrees[i].path)
  /\ IsSelect(Last(calls))

\* --------------------------------------------------------------------- C26
\* position of a path in the selection (each path is ticked at most once)
TargetIndex(p) == CHOOSE k \in 1..Len(selected) : selected[k] = p
BatchCalls == (SelectAt(calls) + 1)..Len(calls)

\* C26: in multi-select prune the selected targets are processed one at a
\* time in selection order; the status check of target k+1 does not start
\* until the outcome of target k has been recorded.
C26_SequentialBatch ==
  /\ [](InBatch =>
          /\ \A i \in BatchCalls : \E k \in 1..Len(selected) : selected[k] = calls[i].path
          /\ \A i, j \in BatchCalls :
                i < j => TargetIndex(calls[i].path) <= TargetIndex(calls[j].path)
          /\ \A i \in BatchCalls :
                /\ TargetIndex(calls[i].path) <= Len(results) + 1
                /\ TargetIndex(calls[i].path) <= Len(results) =>
                      results[TargetIndex(calls[i].path)].worktreeName = calls[i].path.name)
  /\ [][(pc = "m_check" /\ pc' # pc) =>
          /\ Len(results) = idx - 1
          /\ IsStatus(calls'[Len(calls) + 1])
          /\ calls'[Len(calls) + 1].path = selected[idx]
          /\ \A k \in 1..(idx - 1) :
                \E i \in Indices(calls, IsStatus) :
                  i > SelectAt(calls) /\ calls[i].path = selected[k]]_vars

C26_Witness ==
  /\ pc = "m_check"
  /\ idx = 2
  /\ Len(selected) = 2
  /\ Len(results) = 1
  /\ \E i \in BatchCalls : calls[i].path = selected[1]

\* --------------------------------------------------------------------- C27
\* a call that ran `git worktree list --porcelain` and got a non-zero exit
ListFailed(c) == c.op \in {"list", "find"} /\ ~c.ok

\* C27: whenever `git worktree list --porcelain` exits non-zero, both
\* listWorktrees and findWorktreeForBranch surface a GitError to the
\* controller, so grow never goes on to `git worktree add` after a
\* conflict check whose git call failed.
C27_ListFailureSurfaces ==
  \A i \in Indices(calls, ListFailed) :
    /\ i = Len(calls)
    /\ pc = "done"
    /\ exitCode = 1

\* C28: every porcelain line with code XY is listed under the class of Y when
\* Y is not a blank and of X otherwise (M modified, A added, D deleted,
\* ? untracked, R renamed, U unmerged, anything else other), and the listing
\* of a single target and the listing of a multi-select target format every
\* line alike.
ClassOf(c) ==
  CASE c = "M" -> "Modified"
    [] c = "A" -> "Added"
    [] c = "D" -> "Deleted"
    [] c = "?" -> "Untracked"
    [] c = "R" -> "Renamed"
    [] c = "U" -> "Unmerged"
    [] OTHER -> "Other"
ClassShown(entry) ==
  CASE entry.statusLabel = "modified" -> "Modified"
    [] entry.statusLabel = "added" -> "Added"
    [] entry.statusLabel = "deleted" -> "Deleted"
    [] entry.statusLabel = "untracked" -> "Untracked"
    [] entry.statusLabel = "renamed" -> "Renamed"
    [] entry.statusLabel = "unmerged" -> "Unmerged"
    [] OTHER -> "Other"
Listed == pc = "fn_listed"
StatusLines == filterBoolean(split(getWorktreeStatus(porcelain), "\n"))
C28_Classification ==
  /\ Listed =>
       \A i \in 1..Len(porcelain) :
         /\ i <= Len(formattedLines)
         /\ ClassShown(formattedLines[i]) =
              ClassOf(IF porcelain[i].y # " " THEN porcelain[i].y
                      ELSE porcelain[i].x)
  /\ \A i \in 1..Len(StatusLines) :
       pruneCommand_formatLine(StatusLines[i]) =
         pruneSingleWorktree_formatLine(StatusLines[i])
C28_Witness ==
  /\ Listed
  /\ Last(calls).arg = "multi"
  /\ Len(porcelain) = 2
  /\ porcelain[1].x = "M" /\ porcelain[1].y = "D"
  /\ porcelain[2].x = "T" /\ porcelain[2].y = " "
  /\ ClassShown(formattedLines[1]) = "Deleted"
  /\ ClassShown(formattedLines[2]) = "Other"

\* C29: the list shown before the force prompt has one entry per line git
\* emitted, in order, each with the line's path in full, also for a first line
\* whose index status is a blank, and the prompt's count is the number of
\* emitted lines.
C29_ListingFidelity ==
  Listed =>
    /\ changeCount = Len(porcelain)
    /\ Len(formattedLines) = Len(porcelain)
    /\ \A i \in 1..Len(porcelain) :
         formattedLines[i].filePath = porcelain[i].path
C29_CountShown == Listed => changeCount = Len(porcelain)

\* C30: the paths multi-select prune offers are exactly the paths of git's
\* worktree records that lie inside the configured base directory; a worktree
\* in a sibling directory whose name starts with the base's name, or the main
\* checkout, is never offered and never removed.
InsideBase(p) == p.dir = WorktreeBase.dir
Offering == pc \in {"m_hints", "m_select"}
C30_CandidatesInsideBase ==
  /\ Offering =>
       {bonsaiWorktrees[i] : i \in 1..Len(bonsaiWorktrees)} =
         {startWorktrees.worktrees[i].path : i \in
            {j \in 1..Len(startWorktrees.worktrees) :
               InsideBase(startWorktrees.worktrees[j].path)}}
  /\ (PruneRuns /\ branchName = NoName) =>
       \A i \in 1..Len(calls) :
         calls[i].op = "remove" => InsideBase(calls[i].path)
C30_SiblingRemoved ==
  /\ pc = "done"
  /\ \E i \in 1..Len(calls) :
       calls[i].op = "remove" /\ calls[i].ok /\ calls[i].path = SiblingPath
  /\ \A i \in 1..Len(worktrees) : worktrees[i].path # SiblingPath

\* C31: for every branch name the validator accepts, the path grow and
\* single-target prune work on is the worktree base joined with the name whose
\* slashes are hyphens: a direct child of the base, never the base itself and
\* never a path outside it or more than one level below it.
Sanitized == pc = "fn_sanitized"
Hyphenated(b) == [i \in 1..Len(b) |-> IF b[i] = "/" THEN "-" ELSE b[i]]
C31_DirectChild ==
  Sanitized =>
    /\ worktreePath.dir = WorktreeBase.dir
    /\ worktreePath.name = Hyphenated(branchName)
    /\ worktreePath # WorktreeBase
    /\ worktreePath.name \notin {<<>>, <<".">>, <<".", ".">>}
    /\ \A i \in 1..Len(worktreePath.name) : worktreePath.name[i] # "/"
C31_ChildReached ==
  /\ Sanitized
  /\ branchName = <<"a", "/", "a">>
  /\ worktreePath = [dir |-> WorktreeBase.dir, name |-> <<"a", "-", "a">>]

\* C32 as stated: a finished grow invocation ended in InvalidBranchName,
\* WorktreeAlreadyExists, BranchCheckedOutElsewhere, Cancelled,
\* MissingStartPoint, WorktreeCreateFailed, a failed stale prune, or success.
ClaimedOutcomes ==
  {"InvalidBranchName", "WorktreeAlreadyExists", "BranchCheckedOutElsewhere",
   "Cancelled", "MissingStartPoint", "WorktreeCreateFailed", "PruneFailed",
   "Created"}
GrowRunning == pc \notin {"idle", "done"}
AddSucceeded ==
  \E i \in 1..Len(calls) : calls[i].op = "add" /\ calls[i].ok
C32_NoConfigReached ==
  /\ pc = "done"
  /\ outcome = "NoConfig"
  /\ branchName \in ValidNames

\* C33: grow calls `git worktree prune` only after the user confirmed the
\* stale recovery, and once; when the call exits non-zero grow ends with the
\* error and exit code 1 and issues no `git worktree add`; after a zero exit
\* it goes on to the creation.
PruneCalls == Indices(calls, IsPrune)
AddCalls == Indices(calls, IsAdd)
C33_FailedPruneAborts ==
  GrowRuns =>
    /\ Cardinality(PruneCalls) <= 1
    /\ \A i \in PruneCalls :
         /\ i > 1
         /\ calls[i - 1].op = "confirm" /\ calls[i - 1].arg = "yes"
         /\ ~calls[i].ok =>
              /\ i = Len(calls)
              /\ pc = "done" /\ outcome = "PruneFailed" /\ exitCode = 1
         /\ (calls[i].ok /\ i = Len(calls)) => pc = "g_create"
    /\ pc = "g_prune" => Last(calls).op = "confirm" /\ Last(calls).arg = "yes"
C33_Witness ==
  /\ GrowRuns
  /\ pc = "done"
  /\ outcome = "PruneFailed"
  /\ PruneCalls # {}
  /\ AddCalls = {}
C33_PrunedThenCreated ==
  /\ GrowRuns
  /\ outcome = "Created"
  /\ PruneCalls # {}

\* C34: one grow invocation issues at most one `git worktree prune` and at
\* most one `git worktree add`, never a `git worktree remove`, and when it
\* issues both the prune comes before the add.
C34_BoundedMutation ==
  GrowRuns =>
    /\ Cardinality(PruneCalls) <= 1
    /\ Cardinality(AddCalls) <= 1
    /\ Indices(calls, IsRemove) = {}
    /\ \A i \in PruneCalls : \A j \in AddCalls : i < j
C34_Witness ==
  /\ GrowRuns
  /\ pc = "done"
  /\ Cardinality(PruneCalls) = 1
  /\ Cardinality(AddCalls) = 1
  /\ \E i \in PruneCalls : \E j \in AddCalls : i < j /\ calls[i].ok

\* C35: the config mergeConfigWithDefaults returns holds every key of its
\* input with the input's value, `updated` tells whether a key was added, and
\* the input object is as it was before the call.
Merged == pc = "cfg_merged"
KeptValue(k) ==
  IF parsed[k].kind = "object"
    THEN /\ config[k].kind = "object"
         /\ \A f \in SubKeys :
              parsed[k].fields[f] # "undefined" =>
                config[k].fields[f] = parsed[k].fields[f]
    ELSE parsed[k] # Undefined => config[k] = parsed[k]
AddedKey(k) ==
  \/ parsed[k] = Undefined /\ config[k] # Undefined
  \/ \E f \in SubKeys :
       parsed[k].fields[f] = "undefined" /\ config[k].fields[f] # "undefined"
C35_MergeNeverOverwrites ==
  Merged =>
    /\ \A k \in TopKeys : KeptValue(k)
    /\ updated <=> \E k \in TopKeys : AddedKey(k)
    /\ parsed = parse(configFile)
\* the same with a file of strings, integers, booleans and arrays only
JsonSafe == parsed["extra"].leaf \notin {NaN, TomlDate}
C35_JsonValuesKept ==
  (Merged /\ JsonSafe) =>
    /\ \A k \in TopKeys : KeptValue(k)
    /\ updated <=> \E k \in TopKeys : AddedKey(k)
    /\ parsed = parse(configFile)
C35_KeysOnlyAdded ==
  /\ Merged
  /\ updated
  /\ parsed["extra"] = Leaf("\"x\"")
  /\ \A k \in TopKeys : KeptValue(k)

\* C36: loading an existing config file that lacks
\* behavior.post_creation_action, with or without a behavior table, gives
\* post_creation_action = 0; every other missing optional key gets its
\* DEFAULT_CONFIG value; and loading the file written back adds nothing.
Loaded == pc = "cfg_loaded"
OtherOptionalKeys ==
  {<<"repo", "main_branch">>, <<"editor", "name">>, <<"setup", "commands">>,
   <<"behavior", "navigate_after_grow">>}
C36_MigrationDefaults ==
  /\ [](Loaded =>
          /\ parsed["behavior"].fields["post_creation_action"] = "undefined"
               => config["behavior"].fields["post_creation_action"] = "0"
          /\ \A key \in OtherOptionalKeys :
               parsed[key[1]].fields[key[2]] = "undefined" =>
                 config[key[1]].fields[key[2]] =
                   DEFAULT_CONFIG[key[1]].fields[key[2]])
  /\ [][(pc = "cfg_loaded" /\ pc' = "cfg_reloaded")
          => ~updated' /\ configFile' = configFile]_vars
  /\ [][pc = "cfg_loaded" => pc' # "cfg_failed"]_vars
C36_Witness ==
  /\ pc = "cfg_reloaded"
  /\ ~updated
  /\ config["behavior"].fields["post_creation_action"] = "0"
  /\ config["behavior"].fields["navigate_after_grow"] = "true"
  /\ config["editor"].fields["name"] = "\"cursor\""

\* C37: `prune B` issues `git worktree remove` only on a worktree whose
\* checked-out branch is B: two different valid branch names never resolve to
\* the same worktree path.
BranchAtStart(p) ==
  {startWorktrees.worktrees[i].branch :
     i \in {j \in 1..Len(startWorktrees.worktrees) :
              startWorktrees.worktrees[j].path = p}}
C37_PruneOnlyNamedBranch ==
  (PruneRuns /\ branchName # NoName) =>
    \A i \in 1..Len(calls) :
      IsRemove(calls[i]) => BranchAtStart(calls[i].path) \subseteq {branchName}
C37_OtherBranchRemoved ==
  /\ PruneRuns
  /\ pc = "done"
  /\ outcome = "Removed"
  /\ branchName = A_B
  /\ BranchAtStart(worktreePath) = {AB}
  /\ \A i \in 1..Len(worktrees) : worktrees[i].branch # AB

\* C38: the branch status grow announces from its own branchExists and
\* isRemoteOnlyBranch results (tracking remote, using existing local, creating
\* new from main) is the shape of the `git worktree add` that createWorktree
\* runs, also when refs change between the two sets of queries.
Announced ==
  IF exists THEN (IF isRemote THEN "track" ELSE "attach") ELSE "new"
C38_AnnouncedIsExecuted ==
  GrowRuns => \A i \in 1..Len(calls) : IsAdd(calls[i]) => calls[i].arg = Announced

\* C39: the registry holds at most one entry per worktree path; a trackSession
\* or removeSession that runs alone changes only its own path's entry; and
\* after two trackSession calls on different paths by invocations running at
\* the same time, both entries are in the registry.
OneEntryPerPath ==
  \A m, n \in 1..Len(sessionsFile.text) :
    sessionsFile.text[m][1] = sessionsFile.text[n][1] => m = n
BothTracked ==
  /\ \A i \in Invocations : sessionPc[i] = "saved" /\ sessionOp[i].kind = "track"
  /\ sessionOp[1].worktreePath # sessionOp[2].worktreePath
SameEntry(p) ==
  /\ HasKey(loadRegistry', p) = HasKey(loadRegistry, p)
  /\ HasKey(loadRegistry, p) => Lookup(loadRegistry', p) = Lookup(loadRegistry, p)
SavedAlone(i) ==
  /\ sessionPc[i] = "loaded" /\ sessionPc'[i] = "saved"
  /\ registry[i] = loadRegistry
OwnPathOnly(i) ==
  LET own == sessionOp[i].worktreePath
  IN /\ \A p \in SessionPaths \ {own} : SameEntry(p)
     /\ IF sessionOp[i].kind = "track"
        THEN /\ HasKey(loadRegistry', own)
             /\ Lookup(loadRegistry', own) =
                  [worktreePath |-> own, prompt |-> sessionOp[i].prompt]
        ELSE ~HasKey(loadRegistry', own)
BothPresent ==
  \A i \in Invocations :
    /\ HasKey(loadRegistry, sessionOp[i].worktreePath)
    /\ Lookup(loadRegistry, sessionOp[i].worktreePath).prompt = sessionOp[i].prompt
C39_SavedAloneKeepsOthers ==
  [][\A i \in Invocations : SavedAlone(i) => OwnPathOnly(i)]_vars
C39_RegistryUpdatesNotLost ==
  /\ [](OneEntryPerPath /\ (BothTracked => BothPresent))
  /\ C39_SavedAloneKeepsOthers
C39_UpdateLost ==
  /\ BothTracked
  /\ ~HasKey(loadRegistry, sessionOp[1].worktreePath)
====
